---- MODULE Spec2Model ----
(***************************************************************************)
(* IndiePilot: the skill-dependency recommendation engine                  *)
(* (src/src/indiegraph.py, class IndieGraph).                              *)
(*                                                                         *)
(* The engine is built once from an embedded catalog and is read-only      *)
(* afterwards.  Its methods are pure functions of the catalog and of the   *)
(* completed-skill set handed to them.  The state machine below holds the  *)
(* object's fields, the completed set the caller holds, and the call in    *)
(* progress: a caller that is idle makes one call, the call's return value *)
(* is recorded, and the caller drops it and is idle again.                 *)
(***************************************************************************)
EXTENDS Integers, Sequences, FiniteSets

VARIABLES
    nodes,              \* IndieGraph.nodes: the catalog, in catalog order
    edges,              \* IndieGraph.edges: the catalog's edge list
    adjacency_list,     \* IndieGraph.adjacency_list: id -> dependents
    reverse_adjacency,  \* IndieGraph.reverse_adjacency: id -> sources
    completed,          \* the completed-skill set the caller passes in
    bfs_queue,          \* get_skill_path's local queue while its loop runs
    bfs_visited,        \* get_skill_path's local visited while its loop runs
    op,                 \* the method whose result is held ("idle": none)
    arg,                \* its argument besides the completed set
    ret,                \* its return value
    default_weights,    \* AutonomyIndex.default_weights, in hundredths
    user_settings,      \* table user_settings: user id -> its row, or None
    quest_progress,     \* table quest_progress, rows in insertion order
    budget_log,         \* table budget_log, rows in insertion order
    today,              \* datetime.now().date(), as a day number
    board_post,         \* table board_post, rows in insertion order
    board_claim,        \* table board_claim, rows in insertion order
    sim_run             \* table sim_run, rows in insertion order

vars == <<nodes, edges, adjacency_list, reverse_adjacency, completed,
          bfs_queue, bfs_visited, op, arg, ret,
          default_weights, user_settings, quest_progress, budget_log, today,
          board_post, board_claim, sim_run>>

(***************************************************************************)
(* Bounds of the model.                                                    *)
(***************************************************************************)
\* Completed sets of up to this many ids are explored (and the finished catalog).
MaxCompleted == 3
\* get_next_skills is called with limit in 0..MaxLimit.
MaxLimit == 4

(***************************************************************************)
(* The embedded catalog.  A node's title, description, difficulty and      *)
(* category are carried through unchanged by every method modelled here    *)
(* and decide nothing; a node is its id and its prerequisites list.        *)
(***************************************************************************)
_load_indiegraph ==
    [ nodes |-> <<
        [id |-> "basic_laundry",          prerequisites |-> << >>],
        [id |-> "meal_planning",          prerequisites |-> << >>],
        [id |-> "grocery_shopping",       prerequisites |-> <<"meal_planning">>],
        [id |-> "budget_tracking",        prerequisites |-> << >>],
        [id |-> "time_management",        prerequisites |-> << >>],
        [id |-> "public_transport",       prerequisites |-> <<"time_management">>],
        [id |-> "appointment_booking",    prerequisites |-> <<"time_management">>],
        [id |-> "emergency_preparedness", prerequisites |-> <<"basic_laundry", "budget_tracking">>],
        [id |-> "cooking_basics",         prerequisites |-> <<"grocery_shopping">>],
        [id |-> "financial_planning",     prerequisites |-> <<"budget_tracking", "time_management">>],
        [id |-> "conflict_resolution",    prerequisites |-> <<"appointment_booking">>],
        [id |-> "job_interview",          prerequisites |-> <<"conflict_resolution", "financial_planning">>],
        [id |-> "community_service",      prerequisites |-> <<"time_management", "budget_tracking">>],
        [id |-> "public_speaking",        prerequisites |-> <<"conflict_resolution">>],
        [id |-> "first_aid",              prerequisites |-> <<"emergency_preparedness">>] >>,
      edges |-> <<
        [from |-> "meal_planning",          to |-> "grocery_shopping"],
        [from |-> "time_management",        to |-> "public_transport"],
        [from |-> "time_management",        to |-> "appointment_booking"],
        [from |-> "basic_laundry",          to |-> "emergency_preparedness"],
        [from |-> "budget_tracking",        to |-> "emergency_preparedness"],
        [from |-> "grocery_shopping",       to |-> "cooking_basics"],
        [from |-> "budget_tracking",        to |-> "financial_planning"],
        [from |-> "time_management",        to |-> "financial_planning"],
        [from |-> "appointment_booking",    to |-> "conflict_resolution"],
        [from |-> "conflict_resolution",    to |-> "job_interview"],
        [from |-> "financial_planning",     to |-> "job_interview"],
        [from |-> "time_management",        to |-> "community_service"],
        [from |-> "budget_tracking",        to |-> "community_service"],
        [from |-> "conflict_resolution",    to |-> "public_speaking"],
        [from |-> "emergency_preparedness", to |-> "first_aid"] >> ]

\* Python's None, as get_node_by_id returns it for an id that is no node.
None == [none |-> TRUE]

\* An id that is no node of the catalog: the first id of the quest table.
UnknownSkillId == "quest_laundry"

\* The ids of the catalog's nodes.
NodeIdSet == {_load_indiegraph.nodes[i].id : i \in DOMAIN _load_indiegraph.nodes}

\* The ids a caller passes: every node's id and one id that is no node.
SkillIds == NodeIdSet \cup {UnknownSkillId}

\* The completed sets explored: every set of at most MaxCompleted ids, and
\* the set of a user who has finished the whole catalog.
CompletedSets ==
    {c \in SUBSET SkillIds : Cardinality(c) <= MaxCompleted} \cup {NodeIdSet}

(***************************************************************************)
(* IndieGraph.__init__ and the two index builders.                         *)
(***************************************************************************)
RECURSIVE AdjacencyLoopOverwrite(_, _, _)
\* A faulty loop: the edge's target replaces the list instead of joining it.
AdjacencyLoopOverwrite(es, i, adjacency) ==
    IF i > Len(es) THEN adjacency
    ELSE AdjacencyLoopOverwrite(es, i + 1,
            IF es[i].from \in DOMAIN adjacency
            THEN [adjacency EXCEPT ![es[i].from] = <<es[i].to>>]
            ELSE adjacency)

RECURSIVE AdjacencyLoop(_, _, _)
\* The loop of _build_adjacency_list over the edges from index i on.
AdjacencyLoop(es, i, adjacency) ==
    IF i > Len(es) THEN adjacency
    ELSE AdjacencyLoop(es, i + 1,
            IF es[i].from \in DOMAIN adjacency
            THEN [adjacency EXCEPT ![es[i].from] = Append(@, es[i].to)]
            ELSE adjacency)

_build_adjacency_list(ns, es) ==
    AdjacencyLoop(es, 1, [id \in {ns[i].id : i \in DOMAIN ns} |-> << >>])

RECURSIVE ReverseLoop(_, _, _)
\* The loop of _build_reverse_adjacency over the edges from index i on.
ReverseLoop(es, i, reverse) ==
    IF i > Len(es) THEN reverse
    ELSE ReverseLoop(es, i + 1,
            IF es[i].to \in DOMAIN reverse
            THEN [reverse EXCEPT ![es[i].to] = Append(@, es[i].from)]
            ELSE reverse)

_build_reverse_adjacency(ns, es) ==
    ReverseLoop(es, 1, [id \in {ns[i].id : i \in DOMAIN ns} |-> << >>])

(***************************************************************************)
(* Lookups.                                                                *)
(***************************************************************************)
\* The first node of the catalog with this id, or None.
get_node_by_id(node_id) ==
    LET hits == {i \in DOMAIN nodes : nodes[i].id = node_id}
    IN  IF hits = {} THEN None
        ELSE nodes[CHOOSE i \in hits : \A j \in hits : i <= j]

get_prerequisites(skill_id) ==
    LET node == get_node_by_id(skill_id)
    IN  IF node = None THEN << >> ELSE node.prerequisites

get_dependents(skill_id) ==
    IF skill_id \in DOMAIN adjacency_list THEN adjacency_list[skill_id] ELSE << >>

\* A faulty check: any() where the code has all().
is_available_any(skill_id, completed_skills) ==
    LET prerequisites == get_prerequisites(skill_id)
    IN  \E k \in DOMAIN prerequisites : prerequisites[k] \in completed_skills

\* A faulty check: the membership test inverted.
is_available_inverted(skill_id, completed_skills) ==
    LET prerequisites == get_prerequisites(skill_id)
    IN  \A k \in DOMAIN prerequisites : prerequisites[k] \notin completed_skills

is_available(skill_id, completed_skills) ==
    LET prerequisites == get_prerequisites(skill_id)
    IN  \A k \in DOMAIN prerequisites : prerequisites[k] \in completed_skills

\* A faulty filter: completed skills are not left out.
get_available_skills_keeps_completed(completed_skills) ==
    LET Keep(node) == is_available(node.id, completed_skills)
    IN  SelectSeq(nodes, Keep)

get_available_skills(completed_skills) ==
    LET Keep(node) == /\ node.id \notin completed_skills
                      /\ is_available(node.id, completed_skills)
    IN  SelectSeq(nodes, Keep)

(***************************************************************************)
(* Scoring heuristics.                                                     *)
(***************************************************************************)
\* Out-degree minus in-degree.
calculate_centrality(skill_id) ==
    LET dependents == Len(get_dependents(skill_id))
        prerequisites == Len(get_prerequisites(skill_id))
    IN  dependents - prerequisites

\* A faulty collection: the skill itself is not left out.
potential_skills_counts_itself(skill_id, completed_skills) ==
    {nodes[i].id : i \in
        {j \in DOMAIN nodes :
            /\ nodes[j].id \notin completed_skills
            /\ is_available(nodes[j].id, completed_skills \cup {skill_id})}}

\* The set the loop of calculate_coverage collects.
potential_skills(skill_id, completed_skills) ==
    {nodes[i].id : i \in
        {j \in DOMAIN nodes :
            /\ nodes[j].id \notin completed_skills
            /\ nodes[j].id # skill_id
            /\ is_available(nodes[j].id, completed_skills \cup {skill_id})}}

calculate_coverage(skill_id, completed_skills) ==
    IF skill_id \in completed_skills THEN 0
    ELSE Cardinality(potential_skills(skill_id, completed_skills))

(***************************************************************************)
(* Recommendations.                                                        *)
(***************************************************************************)
\* Python's s[:limit]: the first limit elements, or all but the last -limit.
SliceTo(s, limit) ==
    IF limit >= 0
    THEN SubSeq(s, 1, IF limit < Len(s) THEN limit ELSE Len(s))
    ELSE SubSeq(s, 1, IF Len(s) + limit > 0 THEN Len(s) + limit ELSE 0)

\* A faulty insertion: x goes ahead of the elements of equal score, so the
\* sort is not stable.
InsertByScoreUnstable(s, x) ==
    LET ahead == {k \in DOMAIN s : s[k].combined_score > x.combined_score}
        n == Cardinality(ahead)
    IN  SubSeq(s, 1, n) \o <<x>> \o SubSeq(s, n + 1, Len(s))

\* x put into s, which is sorted by combined_score descending, behind every
\* element whose score is at least x's.
InsertByScore(s, x) ==
    LET ahead == {k \in DOMAIN s : s[k].combined_score >= x.combined_score}
        n == Cardinality(ahead)
    IN  SubSeq(s, 1, n) \o <<x>> \o SubSeq(s, n + 1, Len(s))

RECURSIVE SortLoop(_, _, _)
SortLoop(s, i, sorted) ==
    IF i > Len(s) THEN sorted
    ELSE SortLoop(s, i + 1, InsertByScore(sorted, s[i]))

\* A faulty sort: the list is left in catalog order.
SortSkipped(s) == s

\* list.sort(key = combined_score, reverse = True): a stable sort, elements of
\* equal score keep their order.
SortByScoreDescending(s) == SortLoop(s, 1, << >>)

\* The nodes without prerequisites, in catalog order.
basic_skills ==
    LET NoPrerequisites(node) == node.prerequisites = << >>
    IN  SelectSeq(nodes, NoPrerequisites)

\* One available skill with its three derived fields.
scored_skill(skill, completed_skills) ==
    LET centrality == calculate_centrality(skill.id)
        coverage == calculate_coverage(skill.id, completed_skills)
    IN  [id |-> skill.id,
         prerequisites |-> skill.prerequisites,
         centrality |-> centrality,
         coverage |-> coverage,
         combined_score |-> centrality + coverage]

\* get_next_skills from the completed set its query yields.
get_next_skills(completed_skills, limit) ==
    LET available_skills == get_available_skills(completed_skills)
        scored_skills ==
            [k \in DOMAIN available_skills |->
                scored_skill(available_skills[k], completed_skills)]
    IN  IF available_skills = << >>
        THEN SliceTo(basic_skills, limit)
        ELSE SliceTo(SortByScoreDescending(scored_skills), limit)

(***************************************************************************)
(* Path to a target skill.                                                 *)
(***************************************************************************)
\* Faulty queue entries: completed prerequisites are queued as well.
PathSuccessorsWithCompleted(current_skill, path, completed_skills, visited) ==
    LET prerequisites == get_prerequisites(current_skill)
        Unmet(prereq) == prereq \notin visited
        todo == SelectSeq(prerequisites, Unmet)
    IN  [k \in DOMAIN todo |->
            [skill |-> todo[k],
             path |-> Append(path, get_node_by_id(current_skill))]]

\* Faulty queue entries: the path is handed on without the current skill.
PathSuccessorsShortPath(current_skill, path, completed_skills, visited) ==
    LET prerequisites == get_prerequisites(current_skill)
        Unmet(prereq) == prereq \notin completed_skills /\ prereq \notin visited
        todo == SelectSeq(prerequisites, Unmet)
    IN  [k \in DOMAIN todo |-> [skill |-> todo[k], path |-> path]]

\* The queue entries the inner loop of get_skill_path appends for current.
PathSuccessors(current_skill, path, completed_skills, visited) ==
    LET prerequisites == get_prerequisites(current_skill)
        Unmet(prereq) == prereq \notin completed_skills /\ prereq \notin visited
        todo == SelectSeq(prerequisites, Unmet)
    IN  [k \in DOMAIN todo |->
            [skill |-> todo[k],
             path |-> Append(path, get_node_by_id(current_skill))]]

RECURSIVE PathLoopDepthFirst(_, _, _)
\* A faulty loop: new entries go to the front of the queue.
PathLoopDepthFirst(queue, visited, completed_skills) ==
    IF queue = << >> THEN << >>
    ELSE LET current_skill == Head(queue).skill
             path == Head(queue).path
             rest == Tail(queue)
         IN  IF current_skill \in visited
             THEN PathLoopDepthFirst(rest, visited, completed_skills)
             ELSE IF is_available(current_skill, completed_skills)
             THEN Append(path, get_node_by_id(current_skill))
             ELSE PathLoopDepthFirst(
                    PathSuccessors(current_skill, path, completed_skills,
                                   visited \cup {current_skill}) \o rest,
                    visited \cup {current_skill},
                    completed_skills)

RECURSIVE PathLoop(_, _, _)
\* The while loop of get_skill_path.
PathLoop(queue, visited, completed_skills) ==
    IF queue = << >> THEN << >>
    ELSE LET current_skill == Head(queue).skill
             path == Head(queue).path
             rest == Tail(queue)
         IN  IF current_skill \in visited
             THEN PathLoop(rest, visited, completed_skills)
             ELSE IF is_available(current_skill, completed_skills)
             THEN Append(path, get_node_by_id(current_skill))
             ELSE PathLoop(
                    rest \o PathSuccessors(current_skill, path, completed_skills,
                                           visited \cup {current_skill}),
                    visited \cup {current_skill},
                    completed_skills)

get_skill_path(target_skill_id, completed_skills) ==
    IF target_skill_id \in completed_skills THEN << >>
    ELSE PathLoop(<<[skill |-> target_skill_id, path |-> << >>]>>, {}, completed_skills)

(***************************************************************************)
(* The stored tables (src/src/db.py) and the Autonomy Index engine's own   *)
(* weights, as they are before any user has done anything.  Weights are    *)
(* kept in hundredths (0.30 is 30), jar ratios in percent, dates as day    *)
(* numbers.                                                                *)
(***************************************************************************)

\* The user ids the callers pass: the boards' default user and the author of
\* the first seeded post.
Users == {"demo_user", "demo_user_1"}

\* AutonomyIndex.__init__: default_weights.
DefaultWeights ==
    [skills |-> 30, budgeting |-> 30, community |-> 15, judgment |-> 25]

\* The row get_user_settings inserts for a user that has none.
DefaultSettings ==
    [spend_ratio |-> 60, save_ratio |-> 30, share_ratio |-> 10,
     skills_weight |-> 30, budgeting_weight |-> 30,
     community_weight |-> 15, judgment_weight |-> 25]

\* The day the callers run on.
StartDay == 20

\* seed_board_posts: the three seeded posts, all available.
seed_board_posts ==
    << [id |-> "post_study_1", user_id |-> "demo_user_1", status |-> "available"],
       [id |-> "post_carpool_1", user_id |-> "demo_user_2", status |-> "available"],
       [id |-> "post_swap_1", user_id |-> "demo_user_3", status |-> "available"] >>

\* The store after init_db and seed_database, and a fresh AutonomyIndex.
StoreSeeded ==
    /\ default_weights = DefaultWeights
    /\ user_settings = [user_id \in Users |-> None]
    /\ quest_progress = << >>
    /\ budget_log = << >>
    /\ today = StartDay
    /\ board_post = seed_board_posts
    /\ board_claim = << >>
    /\ sim_run = << >>

\* The graph is never mutated after construction, nor is the caller's set,
\* and no search is under way.
GraphFrame ==
    UNCHANGED <<nodes, edges, adjacency_list, reverse_adjacency, completed,
                bfs_queue, bfs_visited>>

StoreFrame ==
    UNCHANGED <<default_weights, user_settings, quest_progress, budget_log, today,
                board_post, board_claim, sim_run>>

(***************************************************************************)
(* The state machine.                                                      *)
(***************************************************************************)
Init ==
    /\ nodes = _load_indiegraph.nodes
    /\ edges = _load_indiegraph.edges
    /\ adjacency_list = _build_adjacency_list(_load_indiegraph.nodes, _load_indiegraph.edges)
    /\ reverse_adjacency = _build_reverse_adjacency(_load_indiegraph.nodes, _load_indiegraph.edges)
    /\ completed \in CompletedSets
    /\ bfs_queue = << >>
    /\ bfs_visited = {}
    /\ op = "idle"
    /\ arg = ""
    /\ ret = ""
    /\ StoreSeeded

\* The engine's methods touch neither the graph nor the stored tables.
Frame == GraphFrame /\ StoreFrame

CallIsAvailable ==
    \E skill_id \in SkillIds :
        /\ op = "idle"
        /\ op' = "is_available"
        /\ arg' = skill_id
        /\ ret' = is_available(skill_id, completed)
        /\ Frame

CallGetAvailableSkills ==
    /\ op = "idle"
    /\ op' = "get_available_skills"
    /\ arg' = ""
    /\ ret' = get_available_skills(completed)
    /\ Frame

CallGetDependents ==
    \E skill_id \in SkillIds :
        /\ op = "idle"
        /\ op' = "get_dependents"
        /\ arg' = skill_id
        /\ ret' = get_dependents(skill_id)
        /\ Frame

CallCalculateCentrality ==
    \E skill_id \in SkillIds :
        /\ op = "idle"
        /\ op' = "calculate_centrality"
        /\ arg' = skill_id
        /\ ret' = calculate_centrality(skill_id)
        /\ Frame

CallCalculateCoverage ==
    \E skill_id \in SkillIds :
        /\ op = "idle"
        /\ op' = "calculate_coverage"
        /\ arg' = skill_id
        /\ ret' = calculate_coverage(skill_id, completed)
        /\ Frame

CallGetNextSkills ==
    \E limit \in 0..MaxLimit :
        /\ op = "idle"
        /\ op' = "get_next_skills"
        /\ arg' = limit
        /\ ret' = get_next_skills(completed, limit)
        /\ Frame

CallGetSkillPath ==
    \E target_skill_id \in SkillIds :
        /\ op = "idle"
        /\ op' = "get_skill_path"
        /\ arg' = target_skill_id
        /\ ret' = get_skill_path(target_skill_id, completed)
        /\ Frame

\* The caller drops the result it holds.
Return ==
    /\ op # "idle"
    /\ op' = "idle"
    /\ arg' = ""
    /\ ret' = ""
    /\ Frame

Next ==
    \/ CallIsAvailable
    \/ CallGetAvailableSkills
    \/ CallGetDependents
    \/ CallCalculateCentrality
    \/ CallCalculateCoverage
    \/ CallGetNextSkills
    \/ CallGetSkillPath
    \/ Return

Spec == Init /\ [][Next]_vars


(***************************************************************************)
(* Properties of the recommendation engine.                                *)
(***************************************************************************)
\* The place of an id in catalog order.
CatalogIndex(id) == CHOOSE i \in DOMAIN nodes : nodes[i].id = id

\* The ids of a list of nodes, in order.
IdsOf(list) == [k \in DOMAIN list |-> list[k].id]

\* Every entry of a prerequisites list is in the set c.
AllIn(prerequisites, c) == \A k \in DOMAIN prerequisites : prerequisites[k] \in c

\* C1: for a skill of the catalog, is_available returns true exactly when
\* every entry of the skill's prerequisites list is in the completed set; a
\* skill with an empty prerequisites list is available whatever the set.
C1_IsAvailableIffPrerequisitesCompleted ==
    (op = "is_available" /\ arg \in NodeIdSet) =>
        \A i \in DOMAIN nodes : nodes[i].id = arg =>
            /\ ret <=> AllIn(nodes[i].prerequisites, completed)
            /\ nodes[i].prerequisites = << >> => ret

\* A skill with two prerequisites found available.
C1_Witness ==
    /\ op = "is_available"
    /\ arg \in NodeIdSet
    /\ Len(nodes[CatalogIndex(arg)].prerequisites) = 2
    /\ ret = TRUE

\* C2: is_available is monotonic: if it holds for a subset of the completed
\* set, it holds for the completed set.
C2_IsAvailableMonotonic ==
    op = "is_available" =>
        \A c \in SUBSET completed : is_available(arg, c) => ret

\* A skill with prerequisites, available under a proper subset of the
\* completed set and under the completed set.
C2_Witness ==
    /\ op = "is_available"
    /\ get_prerequisites(arg) # << >>
    /\ \E c \in SUBSET completed : c # completed /\ is_available(arg, c)
    /\ ret = TRUE

\* C3 (as claimed): for an id that is no node of the catalog, is_available
\* returns false whatever the completed set.
C3_AbsentNodeUnavailable ==
    (op = "is_available" /\ arg \notin NodeIdSet) => ret = FALSE

\* C4: get_available_skills returns exactly the catalog nodes that are not
\* completed and for which is_available holds, each once, in catalog order.
C4_AvailableSkillsExact ==
    op = "get_available_skills" =>
        /\ \A k \in DOMAIN ret : \E i \in DOMAIN nodes : ret[k] = nodes[i]
        /\ {ret[k].id : k \in DOMAIN ret} =
              {id \in NodeIdSet : id \notin completed /\ is_available(id, completed)}
        /\ \A k1, k2 \in DOMAIN ret :
              k1 < k2 => CatalogIndex(ret[k1].id) < CatalogIndex(ret[k2].id)

\* Several skills returned while a completed skill, itself available, is
\* left out.
C4_Witness ==
    /\ op = "get_available_skills"
    /\ Len(ret) >= 2
    /\ \E id \in completed \cap NodeIdSet : is_available(id, completed)
    /\ \E id \in NodeIdSet \ completed : ~is_available(id, completed)

\* C5: for a catalog target, get_skill_path returns the empty list when the
\* target is completed; otherwise a non-empty list that starts at the target,
\* each later node a prerequisite of the node before it, no node completed,
\* and the last node, and no earlier one, available.
C5_SkillPathChain ==
    (op = "get_skill_path" /\ arg \in NodeIdSet) =>
        IF arg \in completed THEN ret = << >>
        ELSE /\ Len(ret) >= 1
             /\ ret[1] = nodes[CatalogIndex(arg)]
             /\ \A k \in DOMAIN ret :
                  /\ ret[k] # None
                  /\ ret[k].id \notin completed
                  /\ is_available(ret[k].id, completed) <=> k = Len(ret)
                  /\ k > 1 => \E j \in DOMAIN ret[k - 1].prerequisites :
                                  ret[k - 1].prerequisites[j] = ret[k].id

\* A path of three nodes found for a user with completed skills.
C5_Witness ==
    /\ op = "get_skill_path"
    /\ arg \in NodeIdSet
    /\ completed \cap NodeIdSet # {}
    /\ Len(ret) >= 3

\* C6: get_skill_path('first_aid', {}) on the reference catalog is a
\* non-empty chain that starts at first_aid, goes through
\* emergency_preparedness and ends in basic_laundry or budget_tracking, a
\* node whose prerequisites are all satisfied.
C6_FirstAidPath ==
    (op = "get_skill_path" /\ arg = "first_aid" /\ completed = {}) =>
        /\ Len(ret) >= 1
        /\ ret[1].id = "first_aid"
        /\ \E k \in DOMAIN ret : ret[k].id = "emergency_preparedness"
        /\ ret[Len(ret)].id \in {"basic_laundry", "budget_tracking"}
        /\ AllIn(ret[Len(ret)].prerequisites, completed)

\* The path of first_aid for a user with nothing completed.
C6_Witness ==
    /\ op = "get_skill_path"
    /\ arg = "first_aid"
    /\ completed = {}
    /\ Len(ret) = 3

\* C7 (as claimed): with nothing completed and limit 3, get_next_skills
\* returns basic_laundry, meal_planning, budget_tracking: three nodes without
\* prerequisites, in catalog order.
C7_BootstrapCatalogOrder ==
    (op = "get_next_skills" /\ completed = {} /\ arg = 3) =>
        /\ \A k \in DOMAIN ret : ret[k].prerequisites = << >>
        /\ IdsOf(ret) = <<"basic_laundry", "meal_planning", "budget_tracking">>

\* C7 (amended): with nothing completed and limit 3, get_next_skills returns
\* three nodes without prerequisites in descending order of combined score:
\* time_management (9), budget_tracking (6), meal_planning (5).
C7_BootstrapByScore ==
    (op = "get_next_skills" /\ completed = {} /\ arg = 3) =>
        /\ \A k \in DOMAIN ret : ret[k].prerequisites = << >>
        /\ IdsOf(ret) = <<"time_management", "budget_tracking", "meal_planning">>
        /\ [k \in DOMAIN ret |-> ret[k].combined_score] = <<9, 6, 5>>

\* The recommendations of a user with nothing completed, limit 3.
C7_Witness ==
    /\ op = "get_next_skills"
    /\ completed = {}
    /\ arg = 3
    /\ Len(ret) = 3

\* The combined score the engine gives a skill under the completed set.
CombinedScore(id) == calculate_centrality(id) + calculate_coverage(id, completed)

\* Skill a ranks ahead of skill b: a higher combined score, or the same
\* score and an earlier place in the catalog.
RanksAhead(a, b) ==
    \/ CombinedScore(a) > CombinedScore(b)
    \/ CombinedScore(a) = CombinedScore(b) /\ CatalogIndex(a) < CatalogIndex(b)

\* C8: when some skill is available, get_next_skills returns the first
\* min(limit, number available) of the available skills ordered by combined
\* score = centrality + coverage, highest first, equal scores in catalog
\* order; every returned skill is available, not completed, and has
\* coverage >= 0.
C8_NextSkillsRanked ==
    (op = "get_next_skills" /\ get_available_skills(completed) # << >>) =>
        LET available == get_available_skills(completed)
            returned == {ret[k].id : k \in DOMAIN ret}
        IN  /\ Len(ret) = IF arg < Len(available) THEN arg ELSE Len(available)
            /\ \A k \in DOMAIN ret :
                 /\ \E j \in DOMAIN available : available[j].id = ret[k].id
                 /\ ret[k].id \notin completed
                 /\ is_available(ret[k].id, completed)
                 /\ ret[k].centrality = calculate_centrality(ret[k].id)
                 /\ ret[k].coverage = calculate_coverage(ret[k].id, completed)
                 /\ ret[k].coverage >= 0
                 /\ ret[k].combined_score = ret[k].centrality + ret[k].coverage
            /\ \A k1, k2 \in DOMAIN ret :
                 k1 < k2 => RanksAhead(ret[k1].id, ret[k2].id)
            /\ \A j \in DOMAIN available :
                 available[j].id \notin returned =>
                     \A k \in DOMAIN ret : RanksAhead(ret[k].id, available[j].id)

\* Recommendations cut off by the limit, two of them with the same score.
C8_Witness ==
    /\ op = "get_next_skills"
    /\ completed # {}
    /\ Len(ret) >= 2
    /\ Len(ret) < Len(get_available_skills(completed))
    /\ \E k \in 1..(Len(ret) - 1) : ret[k].combined_score = ret[k + 1].combined_score

\* The skills whose prerequisites list contains id.
ListedBy(id) ==
    {nodes[i].id : i \in
        {j \in DOMAIN nodes :
            \E k \in DOMAIN nodes[j].prerequisites : nodes[j].prerequisites[k] = id}}

\* C9: for a skill of the catalog, get_dependents (built from the edge list)
\* is exactly the set of skills whose prerequisites list contains it, and
\* calculate_centrality is the number of those skills minus the length of
\* the skill's own prerequisites list.
C9_DependentsMatchPrerequisites ==
    /\ (op = "get_dependents" /\ arg \in NodeIdSet) =>
          /\ {ret[k] : k \in DOMAIN ret} = ListedBy(arg)
          /\ Len(ret) = Cardinality(ListedBy(arg))
    /\ (op = "calculate_centrality" /\ arg \in NodeIdSet) =>
          ret = Cardinality(ListedBy(arg)) - Len(nodes[CatalogIndex(arg)].prerequisites)

\* The centrality of a skill that has prerequisites and several dependents.
C9_Witness ==
    /\ op = "calculate_centrality"
    /\ arg \in NodeIdSet
    /\ Cardinality(ListedBy(arg)) >= 2
    /\ nodes[CatalogIndex(arg)].prerequisites # << >>

\* The skills, other than id and the completed ones, whose prerequisites are
\* all in the completed set with id added.
UnlockedWith(id) ==
    {other \in NodeIdSet \ (completed \cup {id}) :
        AllIn(nodes[CatalogIndex(other)].prerequisites, completed \cup {id})}

\* C10: calculate_coverage is >= 0, is 0 when the skill is completed, and
\* counts neither the skill itself nor a completed skill: it is the number
\* of skills outside both whose prerequisites the skill would complete.
C10_CoverageBounds ==
    op = "calculate_coverage" =>
        /\ ret >= 0
        /\ arg \in completed => ret = 0
        /\ ret <= Cardinality(NodeIdSet \ (completed \cup {arg}))
        /\ arg \notin completed => ret = Cardinality(UnlockedWith(arg))

\* The coverage of a skill that is not completed and would itself be
\* available, next to completed skills that are available too.
C10_Witness ==
    /\ op = "calculate_coverage"
    /\ arg \in NodeIdSet \ completed
    /\ is_available(arg, completed)
    /\ \E id \in completed \cap NodeIdSet : is_available(id, completed)
    /\ ret > 0

\* The skills, other than id and the completed ones, that are not available
\* under the completed set and are available once id is added to it.
NewlyUnlockedBy(id) ==
    {other \in NodeIdSet \ (completed \cup {id}) :
        /\ ~AllIn(nodes[CatalogIndex(other)].prerequisites, completed)
        /\ AllIn(nodes[CatalogIndex(other)].prerequisites, completed \cup {id})}

\* C11 (as claimed): for a skill that is not completed, calculate_coverage is
\* the number of newly unlocked skills: those not available under the
\* completed set that are available once the skill is added to it.
C11_CoverageCountsNewlyUnlocked ==
    (op = "calculate_coverage" /\ arg \notin completed) =>
        ret = Cardinality(NewlyUnlockedBy(arg))

\* The ids in the prerequisites list of a skill.
PrerequisiteIds(skill_id) ==
    {get_prerequisites(skill_id)[k] : k \in DOMAIN get_prerequisites(skill_id)}

RECURSIVE ChainEnds(_, _)
\* The skills a prerequisite chain of n nodes can end in, when it starts at
\* the target and passes only through skills that are not completed.
ChainEnds(target_skill_id, n) ==
    IF n = 1 THEN {target_skill_id}
    ELSE {prereq \in UNION {PrerequisiteIds(skill_id) :
                               skill_id \in ChainEnds(target_skill_id, n - 1)} :
             prereq \notin completed}

\* The numbers of nodes of the chains that end in an available skill.
ChainLengths(target_skill_id) ==
    {n \in 1..(Len(nodes) + 1) :
        \E skill_id \in ChainEnds(target_skill_id, n) : is_available(skill_id, completed)}

\* C24: for a target that is not completed, the path get_skill_path returns
\* has as few nodes as any prerequisite chain that starts at the target,
\* passes only through skills that are not completed and ends in an
\* available skill; it is empty only when there is no such chain.
C24_SkillPathShortest ==
    (op = "get_skill_path" /\ arg \notin completed) =>
        IF ChainLengths(arg) = {} THEN ret = << >>
        ELSE /\ Len(ret) \in ChainLengths(arg)
             /\ \A n \in ChainLengths(arg) : Len(ret) <= n

\* A returned path of at least two nodes where a longer chain to an available
\* skill exists as well.
C24_Witness ==
    /\ op = "get_skill_path"
    /\ arg \notin completed
    /\ Len(ret) >= 2
    /\ \E n \in ChainLengths(arg) : n > Len(ret)

Categories == <<"frugality", "safety", "time", "initiative">>

CategorySet == {Categories[k] : k \in 1..Len(Categories)}

scoring_weights ==
    [frugality |-> 25, safety |-> 30, time |-> 20, initiative |-> 25]

\* SimManager._load_scenarios: the five embedded scenarios.
_load_scenarios ==
    <<
      [ id |-> "scenario_budget_shopping",
        steps |-> <<
            [choices |-> <<
                [scores |-> [frugality |-> 20, safety |-> 80, time |-> 60, initiative |-> 40]],
                [scores |-> [frugality |-> 90, safety |-> 90, time |-> 80, initiative |-> 70]],
                [scores |-> [frugality |-> 30, safety |-> 70, time |-> 40, initiative |-> 30]] >>],
            [choices |-> <<
                [scores |-> [frugality |-> 20, safety |-> 60, time |-> 50, initiative |-> 40]],
                [scores |-> [frugality |-> 95, safety |-> 85, time |-> 70, initiative |-> 80]],
                [scores |-> [frugality |-> 80, safety |-> 90, time |-> 60, initiative |-> 60]] >>],
            [choices |-> <<
                [scores |-> [frugality |-> 90, safety |-> 95, time |-> 80, initiative |-> 85]],
                [scores |-> [frugality |-> 40, safety |-> 70, time |-> 60, initiative |-> 50]],
                [scores |-> [frugality |-> 10, safety |-> 30, time |-> 40, initiative |-> 20]] >>] >> ],
      [ id |-> "scenario_transportation",
        steps |-> <<
            [choices |-> <<
                [scores |-> [frugality |-> 60, safety |-> 85, time |-> 70, initiative |-> 40]],
                [scores |-> [frugality |-> 90, safety |-> 80, time |-> 85, initiative |-> 85]],
                [scores |-> [frugality |-> 95, safety |-> 40, time |-> 30, initiative |-> 60]] >>],
            [choices |-> <<
                [scores |-> [frugality |-> 30, safety |-> 90, time |-> 80, initiative |-> 70]],
                [scores |-> [frugality |-> 85, safety |-> 85, time |-> 70, initiative |-> 90]],
                [scores |-> [frugality |-> 80, safety |-> 95, time |-> 50, initiative |-> 20]] >>],
            [choices |-> <<
                [scores |-> [frugality |-> 40, safety |-> 90, time |-> 85, initiative |-> 70]],
                [scores |-> [frugality |-> 90, safety |-> 70, time |-> 80, initiative |-> 85]],
                [scores |-> [frugality |-> 95, safety |-> 80, time |-> 60, initiative |-> 50]] >>] >> ],
      [ id |-> "scenario_emergency",
        steps |-> <<
            [choices |-> <<
                [scores |-> [frugality |-> 80, safety |-> 30, time |-> 60, initiative |-> 70]],
                [scores |-> [frugality |-> 90, safety |-> 95, time |-> 80, initiative |-> 80]],
                [scores |-> [frugality |-> 70, safety |-> 40, time |-> 90, initiative |-> 30]] >>],
            [choices |-> <<
                [scores |-> [frugality |-> 80, safety |-> 20, time |-> 50, initiative |-> 60]],
                [scores |-> [frugality |-> 90, safety |-> 95, time |-> 70, initiative |-> 90]],
                [scores |-> [frugality |-> 90, safety |-> 90, time |-> 60, initiative |-> 80]] >>],
            [choices |-> <<
                [scores |-> [frugality |-> 90, safety |-> 95, time |-> 80, initiative |-> 90]],
                [scores |-> [frugality |-> 70, safety |-> 60, time |-> 90, initiative |-> 40]],
                [scores |-> [frugality |-> 80, safety |-> 70, time |-> 60, initiative |-> 60]] >>] >> ],
      [ id |-> "scenario_social_conflict",
        steps |-> <<
            [choices |-> <<
                [scores |-> [frugality |-> 80, safety |-> 90, time |-> 40, initiative |-> 30]],
                [scores |-> [frugality |-> 85, safety |-> 95, time |-> 70, initiative |-> 90]],
                [scores |-> [frugality |-> 70, safety |-> 40, time |-> 30, initiative |-> 50]] >>],
            [choices |-> <<
                [scores |-> [frugality |-> 90, safety |-> 85, time |-> 60, initiative |-> 85]],
                [scores |-> [frugality |-> 85, safety |-> 95, time |-> 80, initiative |-> 60]],
                [scores |-> [frugality |-> 60, safety |-> 30, time |-> 40, initiative |-> 40]] >>],
            [choices |-> <<
                [scores |-> [frugality |-> 90, safety |-> 95, time |-> 80, initiative |-> 90]],
                [scores |-> [frugality |-> 80, safety |-> 85, time |-> 70, initiative |-> 50]],
                [scores |-> [frugality |-> 70, safety |-> 60, time |-> 90, initiative |-> 40]] >>] >> ],
      [ id |-> "scenario_time_management",
        steps |-> <<
            [choices |-> <<
                [scores |-> [frugality |-> 60, safety |-> 70, time |-> 40, initiative |-> 50]],
                [scores |-> [frugality |-> 90, safety |-> 95, time |-> 90, initiative |-> 85]],
                [scores |-> [frugality |-> 40, safety |-> 30, time |-> 20, initiative |-> 60]] >>],
            [choices |-> <<
                [scores |-> [frugality |-> 90, safety |-> 95, time |-> 80, initiative |-> 90]],
                [scores |-> [frugality |-> 70, safety |-> 40, time |-> 60, initiative |-> 70]],
                [scores |-> [frugality |-> 60, safety |-> 70, time |-> 80, initiative |-> 40]] >>],
            [choices |-> <<
                [scores |-> [frugality |-> 95, safety |-> 95, time |-> 90, initiative |-> 95]],
                [scores |-> [frugality |-> 70, safety |-> 80, time |-> 60, initiative |-> 50]],
                [scores |-> [frugality |-> 40, safety |-> 30, time |-> 20, initiative |-> 60]] >>] >> ] >>

\* A caller's own scenario of two steps, whose choices carry the extreme
\* scores 0 and 100 and scores whose means and weighted sums fall half way
\* between two integers.
ProbeChoices ==
    << [scores |-> [frugality |-> 0, safety |-> 0, time |-> 0, initiative |-> 0]],
       [scores |-> [frugality |-> 100, safety |-> 100, time |-> 100, initiative |-> 100]],
       [scores |-> [frugality |-> 0, safety |-> 1, time |-> 41, initiative |-> 0]],
       [scores |-> [frugality |-> 1, safety |-> 2, time |-> 3, initiative |-> 0]],
       [scores |-> [frugality |-> 2, safety |-> 0, time |-> 0, initiative |-> 0]],
       [scores |-> [frugality |-> 6, safety |-> 0, time |-> 0, initiative |-> 4]] >>

ProbeScenario ==
    [ id |-> "scenario_probe",
      steps |-> << [choices |-> ProbeChoices], [choices |-> ProbeChoices] >> ]

ScenarioInputs ==
    {_load_scenarios[k] : k \in 1..Len(_load_scenarios)} \cup {ProbeScenario}

StepChoices(step) == {step.choices[k] : k \in 1..Len(step.choices)}

\* The choice lists a caller passes: one choice of each step in step order
\* (what the scenario page collects), a list cut short (the empty list
\* included), and a list with one choice too many.
CompleteChoiceLists(scenario) ==
    {c \in [1..Len(scenario.steps) ->
                UNION {StepChoices(scenario.steps[k]) : k \in 1..Len(scenario.steps)}] :
        \A k \in 1..Len(scenario.steps) : c[k] \in StepChoices(scenario.steps[k])}

ChoiceLists(scenario) ==
    CompleteChoiceLists(scenario)
    \cup {SubSeq(c, 1, k) : c \in CompleteChoiceLists(scenario),
                            k \in 0..(Len(scenario.steps) - 1)}
    \cup {Append(c, extra) : c \in CompleteChoiceLists(scenario),
                             extra \in StepChoices(scenario.steps[1])}

\* Python's round() of the quotient num / den of two non-negative integers
\* where the quotient is computed exactly: to the nearest integer, a half to
\* the even neighbour.
\* A faulty rounding that takes a half upwards.
RoundHalfUp(num, den) ==
    IF 2 * (num % den) >= den THEN (num \div den) + 1 ELSE num \div den

RoundHalfEven(num, den) ==
    IF 2 * (num % den) < den THEN num \div den
    ELSE IF 2 * (num % den) > den THEN (num \div den) + 1
    ELSE IF (num \div den) % 2 = 0 THEN num \div den
    ELSE (num \div den) + 1

\* The loop "for choice in choices: category_scores[category] += score".
RECURSIVE CategorySum(_, _)
CategorySum(choices, category) ==
    IF choices = << >> THEN 0
    ELSE choices[1].scores[category] + CategorySum(Tail(choices), category)

\* "category_scores[category] = round(category_scores[category] / num_steps)":
\* a correctly rounded double division of two small integers, whose round()
\* is the exact quotient's.
category_scores(choices) ==
    [category \in CategorySet |->
        RoundHalfEven(CategorySum(choices, category), Len(choices))]

\* The loop "overall_score += score * self.scoring_weights[category]", in
\* hundredths and without the doubles' rounding error.
RECURSIVE WeightedLoop(_, _)
WeightedLoop(scores, k) ==
    IF k = 0 THEN 0
    ELSE WeightedLoop(scores, k - 1)
         + scores[Categories[k]] * scoring_weights[Categories[k]]

\* "round(overall_score)".  The products by 0.25 are exact in doubles; those
\* by 0.30 and 0.20 are not (unless the score is 0), and their error is far
\* below a hundredth.  So off a half the result is the nearest integer, on a
\* half reached by exact products it is the even neighbour, and on a half
\* reached through inexact products the accumulated error decides: either
\* neighbour is an outcome.
overall_outcomes(scores) ==
    IF 2 * (WeightedLoop(scores, Len(Categories)) % 100) # 100
          \/ (scores["safety"] = 0 /\ scores["time"] = 0)
    THEN {RoundHalfEven(WeightedLoop(scores, Len(Categories)), 100)}
    ELSE {WeightedLoop(scores, Len(Categories)) \div 100,
          (WeightedLoop(scores, Len(Categories)) \div 100) + 1}

\* Python's empty dict.
EmptyDict == [category \in {} |-> 0]

\* "if not choices or len(choices) != len(scenario['steps'])".
\* A faulty guard that only turns away the empty list.
choices_mismatch_empty_only(scenario, choices) ==
    choices = << >>

choices_mismatch(scenario, choices) ==
    choices = << >> \/ Len(choices) # Len(scenario.steps)

\* SimManager.calculate_score: the set of results the call can return.
calculate_score(scenario, choices) ==
    IF choices_mismatch(scenario, choices)
    THEN {[overall |-> 0, breakdown |-> EmptyDict]}
    ELSE {[overall |-> overall, breakdown |-> category_scores(choices)] :
            overall \in overall_outcomes(category_scores(choices))}

(***************************************************************************)
(* The simulator's state machine: an idle caller scores a choice list.     *)
(***************************************************************************)

SimInit ==
    /\ nodes = _load_indiegraph.nodes
    /\ edges = _load_indiegraph.edges
    /\ adjacency_list = _build_adjacency_list(_load_indiegraph.nodes, _load_indiegraph.edges)
    /\ reverse_adjacency = _build_reverse_adjacency(_load_indiegraph.nodes, _load_indiegraph.edges)
    /\ completed = {}
    /\ bfs_queue = << >>
    /\ bfs_visited = {}
    /\ op = "idle"
    /\ arg = ""
    /\ ret = ""
    /\ StoreSeeded

CallCalculateScore ==
    \E scenario \in ScenarioInputs :
      \E choices \in ChoiceLists(scenario) :
        \E result \in calculate_score(scenario, choices) :
            /\ op = "idle"
            /\ op' = "calculate_score"
            /\ arg' = [scenario |-> scenario, choices |-> choices]
            /\ ret' = result
            /\ Frame

SimNext ==
    \/ CallCalculateScore
    \/ Return

SimSpec == SimInit /\ [][SimNext]_vars

\* C12: calculate_score returns (0, {}) whenever the number of choices differs
\* from the number of steps of the scenario, the empty list included.
C12_MismatchReturnsZero ==
    (op = "calculate_score" /\ Len(arg.choices) # Len(arg.scenario.steps)) =>
        (ret.overall = 0 /\ DOMAIN ret.breakdown = {})

\* A call with one choice too many, and so with scores to add up.
C12_Witness ==
    /\ op = "calculate_score"
    /\ Len(arg.choices) > Len(arg.scenario.steps)
    /\ ret.overall = 0
    /\ DOMAIN ret.breakdown = {}

\* The sum of a category's scores over the choices made.
RECURSIVE ChosenTotal(_, _, _)
ChosenTotal(choices, category, k) ==
    IF k = 0 THEN 0
    ELSE ChosenTotal(choices, category, k - 1) + choices[k].scores[category]

\* v is num / den rounded to the nearest integer, a half going to an even v.
IsRoundedQuotient(v, num, den) ==
    /\ 2 * v * den - 2 * num <= den
    /\ 2 * num - 2 * v * den <= den
    /\ (2 * v * den - 2 * num = den \/ 2 * num - 2 * v * den = den) => v % 2 = 0

\* 0.25*frugality + 0.30*safety + 0.20*time + 0.25*initiative, in hundredths.
WeightedHundredths(b) ==
    25 * b["frugality"] + 30 * b["safety"] + 20 * b["time"] + 25 * b["initiative"]

BreakdownValues(b) == {b[category] : category \in DOMAIN b}

\* C13: with as many choices as steps (and at least one), every category of
\* the breakdown is the rounded mean of the chosen scores, the overall score
\* is the weighted sum of the rounded breakdown values rounded to a nearest
\* integer, all of them lie in 0..100, and the overall score lies between
\* the smallest and the largest breakdown value.
C13_ScoreIsRoundedWeightedMean ==
    (op = "calculate_score" /\ arg.choices # << >>
        /\ Len(arg.choices) = Len(arg.scenario.steps)) =>
        /\ DOMAIN ret.breakdown = {"frugality", "safety", "time", "initiative"}
        /\ \A category \in DOMAIN ret.breakdown :
              /\ IsRoundedQuotient(ret.breakdown[category],
                    ChosenTotal(arg.choices, category, Len(arg.choices)),
                    Len(arg.choices))
              /\ ret.breakdown[category] \in 0..100
        /\ 100 * ret.overall - WeightedHundredths(ret.breakdown) <= 50
        /\ WeightedHundredths(ret.breakdown) - 100 * ret.overall <= 50
        /\ ret.overall \in 0..100
        /\ \A v \in BreakdownValues(ret.breakdown) :
              (\A w \in BreakdownValues(ret.breakdown) : v <= w) => v <= ret.overall
        /\ \A v \in BreakdownValues(ret.breakdown) :
              (\A w \in BreakdownValues(ret.breakdown) : w <= v) => ret.overall <= v

\* A scored list in which a category's mean falls on a half and is rounded
\* to the even neighbour below it, and the breakdown values differ.
C13_Witness ==
    /\ op = "calculate_score"
    /\ Len(arg.choices) = Len(arg.scenario.steps)
    /\ \E category \in DOMAIN ret.breakdown :
          /\ 2 * ChosenTotal(arg.choices, category, Len(arg.choices))
                = (2 * ret.breakdown[category] + 1) * Len(arg.choices)
    /\ \E v, w \in BreakdownValues(ret.breakdown) : v < ret.overall /\ ret.overall < w

(***************************************************************************)
(* The Autonomy Index engine (src/src/autonomy.py, class AutonomyIndex):   *)
(* its own weights.                                                        *)
(***************************************************************************)

Abs(x) == IF x < 0 THEN 0 - x ELSE x

\* The values a caller passes for one weight, in hundredths.
WeightValues == {0, 15, 24, 25, 26, 30}

\* update_weights' four parameters: skills, budgeting, community, judgment.
WeightInputs == WeightValues \X WeightValues \X WeightValues \X WeightValues

\* "total_weight = skills_weight + budgeting_weight + community_weight +
\* judgment_weight", in hundredths and without the doubles' rounding error.
total_weight(w) == w[1] + w[2] + w[3] + w[4]

\* "if abs(total_weight - 1.0) > 0.01: return False", else True.  The sum is
\* a double: a sum that is a hundredth or more off the boundary is on the
\* same side as the exact sum, and a sum of weights whose decimal values
\* add up to 0.99 or 1.01 falls on either side of the tolerance, as the
\* rounding of the three additions has it (0.3 + 0.3 + 0.15 + 0.26 is
\* rejected, 0.24 + 0.3 + 0.3 + 0.15 is accepted).
update_weights_accepts(w) ==
    IF Abs(total_weight(w) - 100) > 1 THEN {FALSE}
    ELSE IF Abs(total_weight(w) - 100) < 1 THEN {TRUE}
    ELSE {TRUE, FALSE}

\* AutonomyIndex.update_weights, called with the weights w.
UpdateWeights(w) ==
    \E accepted \in update_weights_accepts(w) :
        /\ op = "idle"
        /\ op' = "update_weights"
        /\ arg' = w
        /\ ret' = accepted
        /\ default_weights' =
              IF accepted
              THEN [skills |-> w[1], budgeting |-> w[2],
                    community |-> w[3], judgment |-> w[4]]
              ELSE default_weights
        /\ GraphFrame
        /\ UNCHANGED <<user_settings, quest_progress, budget_log, today,
                       board_post, board_claim, sim_run>>

CallUpdateWeights == \E w \in WeightInputs : UpdateWeights(w)

WeightsInit ==
    /\ nodes = _load_indiegraph.nodes
    /\ edges = _load_indiegraph.edges
    /\ adjacency_list = _build_adjacency_list(_load_indiegraph.nodes, _load_indiegraph.edges)
    /\ reverse_adjacency = _build_reverse_adjacency(_load_indiegraph.nodes, _load_indiegraph.edges)
    /\ completed = {}
    /\ bfs_queue = << >>
    /\ bfs_visited = {}
    /\ op = "idle"
    /\ arg = ""
    /\ ret = ""
    /\ StoreSeeded

WeightsNext ==
    \/ CallUpdateWeights
    \/ Return

WeightsSpec == WeightsInit /\ [][WeightsNext]_vars

Min(a, b) == IF a <= b THEN a ELSE b

Max(a, b) == IF a >= b THEN a ELSE b

\* "SELECT COUNT(*) FROM quest_progress WHERE user_id = ? AND completed_at
\* IS NOT NULL".
completed_quests(user_id) ==
    Len(SelectSeq(quest_progress,
                  LAMBDA row : row.user_id = user_id /\ row.completed_at # None))

\* AutonomyIndex._calculate_skills_score.
\* A faulty score without the cap.
_calculate_skills_score_uncapped(user_id) == completed_quests(user_id) * 10

_calculate_skills_score(user_id) == Min(100, completed_quests(user_id) * 10)

\* "SELECT COALESCE(SUM(amount), 0)" over a list of rows.
RECURSIVE SumAmount(_)
SumAmount(rows) ==
    IF rows = << >> THEN 0 ELSE rows[1].amount + SumAmount(Tail(rows))

\* BudgetManager.get_jar_balance.
get_jar_balance(user_id, jar) ==
    SumAmount(SelectSeq(budget_log,
                        LAMBDA row : row.user_id = user_id /\ row.jar = jar))

\* BudgetManager.get_budget_overview.
get_budget_overview(user_id) ==
    [spend |-> get_jar_balance(user_id, "spend"),
     save  |-> get_jar_balance(user_id, "save"),
     share |-> get_jar_balance(user_id, "share"),
     total |-> get_jar_balance(user_id, "spend") + get_jar_balance(user_id, "save")
               + get_jar_balance(user_id, "share")]

\* "SELECT DISTINCT DATE(ts) ... ORDER BY log_date DESC".
RECURSIVE DescendingDates(_)
DescendingDates(days) ==
    IF days = {} THEN << >>
    ELSE LET latest == CHOOSE d \in days : \A e \in days : e <= d
         IN  <<latest>> \o DescendingDates(days \ {latest})

log_dates(user_id) ==
    DescendingDates({budget_log[k].day : k \in
        {j \in DOMAIN budget_log : budget_log[j].user_id = user_id}})

\* The loop of get_current_streak; i is enumerate's index, from 0.
RECURSIVE StreakLoop(_, _, _)
StreakLoop(dates, i, streak) ==
    IF i >= Len(dates) THEN streak
    ELSE IF i = 0
         THEN IF dates[1] = today \/ dates[1] = today - 1
              THEN StreakLoop(dates, 1, 1)
              ELSE streak
         ELSE IF dates[i + 1] = today - i
              THEN StreakLoop(dates, i + 1, streak + 1)
              ELSE streak

\* BudgetManager.get_current_streak.
get_current_streak(user_id) == StreakLoop(log_dates(user_id), 0, 0)

\* BudgetManager.get_financial_health_score, as a fraction over the total
\* balance (jar balances are never negative in the tables drawn here).
\* A faulty score that leaves the streak bonus out.
get_financial_health_score_no_streak(user_id) ==
    LET overview == get_budget_overview(user_id)
        total == overview.total
    IN  IF total = 0 THEN [num |-> 0, den |-> 1]
        ELSE [num |-> Min(100 * total,
                          Min(100 * total, overview.save * 200)
                          + Max(0, 30 * total - overview.spend * 30)),
              den |-> total]

get_financial_health_score(user_id) ==
    LET overview == get_budget_overview(user_id)
        total == overview.total
        streak_bonus == Min(20, get_current_streak(user_id) * 2)
    IN  IF total = 0 THEN [num |-> 0, den |-> 1]
        ELSE [num |-> Min(100 * total,
                          Min(100 * total, overview.save * 200)
                          + streak_bonus * total
                          + Max(0, 30 * total - overview.spend * 30)),
              den |-> total]

\* AutonomyIndex._calculate_budgeting_score.
_calculate_budgeting_score(user_id) ==
    LET base_score == get_financial_health_score(user_id)
        streak_bonus == Min(20, get_current_streak(user_id) * 2)
        overview == get_budget_overview(user_id)
        total == overview.total
    IN  IF total > 0
        THEN [num |-> Max(0, Min(100 * total,
                                 base_score.num + streak_bonus * total
                                 - Max(0, overview.spend * 100 - 70 * total))),
              den |-> total]
        ELSE [num |-> Max(0, Min(100 * base_score.den,
                                 base_score.num + streak_bonus * base_score.den)),
              den |-> base_score.den]

\* "SELECT COUNT(*) FROM board_post WHERE user_id = ?" and the same for
\* board_claim.
posts_created(user_id) ==
    Len(SelectSeq(board_post, LAMBDA row : row.user_id = user_id))

posts_claimed(user_id) ==
    Len(SelectSeq(board_claim, LAMBDA row : row.user_id = user_id))

\* AutonomyIndex._calculate_community_score.
\* A faulty score that gives a claim the points of a post.
_calculate_community_score_claims_as_posts(user_id) ==
    Min(100, Min(50, posts_created(user_id) * 5) + Min(50, posts_claimed(user_id) * 5))

_calculate_community_score(user_id) ==
    Min(100, Min(50, posts_created(user_id) * 5) + Min(50, posts_claimed(user_id) * 10))

\* "SELECT score FROM sim_run WHERE user_id = ? ORDER BY ran_at DESC LIMIT 5".
\* save_run leaves ran_at to the table's default; the rows come back in
\* strict descending recency, the latest saved first.
RECURSIVE Reversed(_)
Reversed(rows) ==
    IF rows = << >> THEN << >> ELSE Append(Reversed(Tail(rows)), rows[1])

\* The user's runs, the latest saved first.
runs_by_recency(user_id) ==
    Reversed(SelectSeq(sim_run, LAMBDA row : row.user_id = user_id))

\* "LIMIT 5".
\* A faulty query without the limit.
recent_runs_unlimited(user_id) == runs_by_recency(user_id)

recent_runs(user_id) == SliceTo(runs_by_recency(user_id), 5)

RECURSIVE SumScore(_)
SumScore(rows) ==
    IF rows = << >> THEN 0 ELSE rows[1].score + SumScore(Tail(rows))

\* AutonomyIndex._calculate_judgment_score, as the fraction sum / len.
\* A faulty score whose default is 0.
_calculate_judgment_score_zero_default(user_id) ==
    IF recent_runs(user_id) = << >> THEN [num |-> 0, den |-> 1]
    ELSE [num |-> SumScore(recent_runs(user_id)), den |-> Len(recent_runs(user_id))]

_calculate_judgment_score(user_id) ==
    IF recent_runs(user_id) = << >> THEN [num |-> 50, den |-> 1]
    ELSE [num |-> SumScore(recent_runs(user_id)), den |-> Len(recent_runs(user_id))]

\* db.get_user_settings: the row it returns...
\* A faulty read that takes the four weights from the engine's own weights.
get_user_settings_engine_weights(user_id) ==
    [field \in DOMAIN DefaultSettings |->
        IF field = "skills_weight" THEN default_weights.skills
        ELSE IF field = "budgeting_weight" THEN default_weights.budgeting
        ELSE IF field = "community_weight" THEN default_weights.community
        ELSE IF field = "judgment_weight" THEN default_weights.judgment
        ELSE IF user_settings[user_id] = None THEN DefaultSettings[field]
        ELSE user_settings[user_id][field]]

get_user_settings(user_id) ==
    IF user_settings[user_id] = None THEN DefaultSettings
    ELSE user_settings[user_id]

\* ... and the table it leaves: a user without a row gets the default row.
settings_after_get(user_id) ==
    [user_settings EXCEPT ![user_id] = get_user_settings(user_id)]

\* The weighted sum of compute_autonomy_index as a fraction: the numerator
\* over 100 * budgeting.den * judgment.den.
autonomy_index_num(user_id) ==
    LET settings == get_user_settings(user_id)
        budgeting == _calculate_budgeting_score(user_id)
        judgment == _calculate_judgment_score(user_id)
    IN  _calculate_skills_score(user_id) * settings.skills_weight
            * budgeting.den * judgment.den
        + budgeting.num * settings.budgeting_weight * judgment.den
        + _calculate_community_score(user_id) * settings.community_weight
            * budgeting.den * judgment.den
        + judgment.num * settings.judgment_weight * budgeting.den

autonomy_index_den(user_id) ==
    100 * _calculate_budgeting_score(user_id).den
        * _calculate_judgment_score(user_id).den

\* AutonomyIndex.compute_autonomy_index: the values "round(autonomy_index,
\* 1)" can return, in tenths.  Off a half of a tenth it is the nearest
\* tenth; on an exact half the double's error decides between the two.
compute_autonomy_index(user_id) ==
    LET num == 10 * autonomy_index_num(user_id)
        den == autonomy_index_den(user_id)
    IN  IF 2 * (num % den) = den
        THEN {num \div den, (num \div den) + 1}
        ELSE {RoundHalfEven(num, den)}

(***************************************************************************)
(* The sub-scores' state machines.  Each draws one table from a family of  *)
(* contents the handlers can leave behind (start_quest / complete_quest,   *)
(* add_income / add_expense, create_post / claim_post, import_data) and    *)
(* lets an idle caller ask for the sub-score of a user.                    *)
(***************************************************************************)

GraphBuilt ==
    /\ nodes = _load_indiegraph.nodes
    /\ edges = _load_indiegraph.edges
    /\ adjacency_list = _build_adjacency_list(_load_indiegraph.nodes, _load_indiegraph.edges)
    /\ reverse_adjacency = _build_reverse_adjacency(_load_indiegraph.nodes, _load_indiegraph.edges)
    /\ completed = {}

Idle ==
    /\ bfs_queue = << >>
    /\ bfs_visited = {}
    /\ op = "idle"
    /\ arg = ""
    /\ ret = ""

\* seed_quests: the ids of the twelve seeded quests.
seed_quests ==
    << "quest_laundry", "quest_meal_prep", "quest_library_booking",
       "quest_appointment_reschedule", "quest_solo_transit", "quest_grocery_budget",
       "quest_time_management", "quest_emergency_contact", "quest_basic_first_aid",
       "quest_public_speaking", "quest_job_interview", "quest_community_service" >>

\* A user's progress rows hold up to this many quests started and not completed.
MaxStartedOnly == 1

\* The rows of a user who completed the first `done` seeded quests and has
\* started the next `started` ones.
QuestRows(user_id, done, started) ==
    [k \in 1..(done + started) |->
        [user_id |-> user_id, quest_id |-> seed_quests[k],
         started_at |-> StartDay - 1,
         completed_at |-> IF k <= done THEN [day |-> StartDay - 1] ELSE None]]

QuestProgressTables ==
    {QuestRows("demo_user", p[1], p[2]) \o QuestRows("demo_user_1", p[3], p[4]) :
        p \in {q \in (0..Len(seed_quests)) \X (0..MaxStartedOnly)
                     \X (0..Len(seed_quests)) \X (0..MaxStartedOnly) :
                 q[1] + q[2] <= Len(seed_quests) /\ q[3] + q[4] <= Len(seed_quests)}}

SkillsInit ==
    /\ GraphBuilt
    /\ Idle
    /\ default_weights = DefaultWeights
    /\ user_settings = [user_id \in Users |-> None]
    /\ quest_progress \in QuestProgressTables
    /\ budget_log = << >>
    /\ today = StartDay
    /\ board_post = seed_board_posts
    /\ board_claim = << >>
    /\ sim_run = << >>

CallSkillsScore ==
    \E user_id \in Users :
        /\ op = "idle"
        /\ op' = "_calculate_skills_score"
        /\ arg' = user_id
        /\ ret' = _calculate_skills_score(user_id)
        /\ Frame

SkillsNext ==
    \/ CallSkillsScore
    \/ Return

SkillsSpec == SkillsInit /\ [][SkillsNext]_vars

\* The number of a user's progress rows that carry a completion time.
CompletedRowCount(user_id) ==
    Cardinality({k \in DOMAIN quest_progress :
                    /\ quest_progress[k].user_id = user_id
                    /\ quest_progress[k].completed_at # None})

\* C17: the skills sub-score is min(100, 10 * completed rows of the user); it
\* never decreases with the count and is 100 from 10 completed rows on.
C17_SkillsScoreCapped ==
    op = "_calculate_skills_score" =>
        /\ ret = IF 10 * CompletedRowCount(arg) <= 100
                 THEN 10 * CompletedRowCount(arg) ELSE 100
        /\ CompletedRowCount(arg) >= 10 => ret = 100
        /\ \A other \in Users :
              CompletedRowCount(other) <= CompletedRowCount(arg)
                  => _calculate_skills_score(other) <= ret

\* The score of a user with more than ten completed quests, next to a user
\* with exactly ten.
C17_Witness ==
    /\ op = "_calculate_skills_score"
    /\ CompletedRowCount(arg) > 10
    /\ ret = 100
    /\ \E other \in Users : CompletedRowCount(other) = 10

(***************************************************************************)
(* The budgeting sub-score.                                                *)
(***************************************************************************)

\* A jar's income is 0..MaxJar.
MaxJar == 3
\* A ledger holds up to MaxRun consecutive logged days ...
MaxRun == 11
\* ... the last of them up to MaxGap days before today.
MaxGap == 2

\* The ledger of a user who logged on `run` consecutive days, the last of
\* them `gap` days ago: on the first day an income split into the three
\* jars, on each later day an expense of 0 from the spend jar, and, when
\* `stray`, one more expense of 0 two days before the run.
LedgerRows(user_id, jars, run, gap, stray) ==
    (IF stray
     THEN << [user_id |-> user_id, amount |-> 0, jar |-> "spend",
              day |-> today - gap - run - 1] >>
     ELSE << >>)
    \o << [user_id |-> user_id, amount |-> jars[1], jar |-> "spend",
           day |-> today - gap - run + 1],
          [user_id |-> user_id, amount |-> jars[2], jar |-> "save",
           day |-> today - gap - run + 1],
          [user_id |-> user_id, amount |-> jars[3], jar |-> "share",
           day |-> today - gap - run + 1] >>
    \o [k \in 1..(run - 1) |->
          [user_id |-> user_id, amount |-> 0, jar |-> "spend",
           day |-> today - gap - run + 1 + k]]

\* The other user's ledger: its rows must not count for the user asked about.
OtherLedger ==
    << [user_id |-> "demo_user_1", amount |-> 2, jar |-> "spend", day |-> today],
       [user_id |-> "demo_user_1", amount |-> 2, jar |-> "save", day |-> today] >>

BudgetLogTables ==
    {OtherLedger} \cup
    {LedgerRows("demo_user", jars, run, gap, stray) \o OtherLedger :
        jars \in (0..MaxJar) \X (0..MaxJar) \X (0..MaxJar),
        run \in 1..MaxRun, gap \in 0..MaxGap, stray \in BOOLEAN}

BudgetInit ==
    /\ GraphBuilt
    /\ Idle
    /\ default_weights = DefaultWeights
    /\ user_settings = [user_id \in Users |-> None]
    /\ quest_progress = << >>
    /\ today = StartDay
    /\ budget_log \in BudgetLogTables
    /\ board_post = seed_board_posts
    /\ board_claim = << >>
    /\ sim_run = << >>

CallBudgetingScore ==
    \E user_id \in Users :
        /\ op = "idle"
        /\ op' = "_calculate_budgeting_score"
        /\ arg' = user_id
        /\ ret' = _calculate_budgeting_score(user_id)
        /\ Frame

BudgetNext ==
    \/ CallBudgetingScore
    \/ Return

BudgetSpec == BudgetInit /\ [][BudgetNext]_vars

\* The balance of a jar: the sum of the amounts of the user's first k rows
\* that name the jar.
RECURSIVE LedgerSum(_, _, _)
LedgerSum(user_id, jar, k) ==
    IF k = 0 THEN 0
    ELSE LedgerSum(user_id, jar, k - 1)
         + (IF budget_log[k].user_id = user_id /\ budget_log[k].jar = jar
            THEN budget_log[k].amount ELSE 0)

SpendBalance(user_id) == LedgerSum(user_id, "spend", Len(budget_log))

SaveBalance(user_id) == LedgerSum(user_id, "save", Len(budget_log))

TotalBalance(user_id) ==
    SpendBalance(user_id) + SaveBalance(user_id)
        + LedgerSum(user_id, "share", Len(budget_log))

\* min(20, 2 * streak).
StreakBonus(user_id) == Min(20, 2 * get_current_streak(user_id))

\* financialHealthScore times the total balance, for a positive total:
\* min(100, min(100, savingsRatio*200) + streak bonus + max(0, 30 - spendRatio*30)).
HealthTimesTotal(user_id) ==
    Min(100 * TotalBalance(user_id),
        Min(100 * TotalBalance(user_id), 200 * SaveBalance(user_id))
        + StreakBonus(user_id) * TotalBalance(user_id)
        + Max(0, 30 * TotalBalance(user_id) - 30 * SpendBalance(user_id)))

\* overspendPenalty times the total balance: max(0, (spend/total - 0.70) * 100).
PenaltyTimesTotal(user_id) ==
    Max(0, 100 * SpendBalance(user_id) - 70 * TotalBalance(user_id))

MaxPosts == 11
MaxClaims == 6

\* generate_id: the ids of the posts the users create, in creation order.
generate_id ==
    << "post_01", "post_02", "post_03", "post_04", "post_05",
       "post_06", "post_07", "post_08", "post_09", "post_10",
       "post_11", "post_12", "post_13", "post_14", "post_15",
       "post_16", "post_17", "post_18", "post_19", "post_20",
       "post_21", "post_22", "post_23", "post_24", "post_25",
       "post_26", "post_27", "post_28", "post_29", "post_30" >>

\* The posts a user created, the first `claimed` of them claimed since.
PostRows(user_id, first_id, posts, claimed) ==
    [k \in 1..posts |->
        [id |-> generate_id[first_id + k], user_id |-> user_id,
         status |-> IF k <= claimed THEN "claimed" ELSE "available"]]

\* The claims a user made, on the first `claimed` posts of their author.
ClaimRows(user_id, first_id, claimed) ==
    [k \in 1..claimed |-> [post_id |-> generate_id[first_id + k], user_id |-> user_id]]

\* The boards on which demo_user created b[1] posts and claimed b[2] posts of
\* demo_user_1, who created b[3] posts and claimed b[4] posts of demo_user.
BoardCounts ==
    {b \in (0..MaxPosts) \X (0..MaxClaims) \X (0..MaxPosts) \X (0..MaxClaims) :
        b[2] <= b[3] /\ b[4] <= b[1]}

BoardPostTable(b) ==
    seed_board_posts \o PostRows("demo_user", 0, b[1], b[4])
                     \o PostRows("demo_user_1", b[1], b[3], b[2])

BoardClaimTable(b) ==
    ClaimRows("demo_user", b[1], b[2]) \o ClaimRows("demo_user_1", 0, b[4])

CommunityInit ==
    /\ GraphBuilt
    /\ Idle
    /\ default_weights = DefaultWeights
    /\ user_settings = [user_id \in Users |-> None]
    /\ quest_progress = << >>
    /\ budget_log = << >>
    /\ today = StartDay
    /\ \E b \in BoardCounts :
          /\ board_post = BoardPostTable(b)
          /\ board_claim = BoardClaimTable(b)
    /\ sim_run = << >>

CallCommunityScore ==
    \E user_id \in Users :
        /\ op = "idle"
        /\ op' = "_calculate_community_score"
        /\ arg' = user_id
        /\ ret' = _calculate_community_score(user_id)
        /\ Frame

CommunityNext ==
    \/ CallCommunityScore
    \/ Return

CommunitySpec == CommunityInit /\ [][CommunityNext]_vars

PostCount(user_id) ==
    Cardinality({k \in DOMAIN board_post : board_post[k].user_id = user_id})

ClaimCount(user_id) ==
    Cardinality({k \in DOMAIN board_claim : board_claim[k].user_id = user_id})

MaxRuns == 6

\* The scores the runs are saved with.
RunScores == {0, 100}

\* SimManager.save_run.
CallSaveRun ==
    \E user_id \in Users :
      \E score \in RunScores :
        /\ op = "idle"
        /\ Len(sim_run) < MaxRuns
        /\ op' = "save_run"
        /\ arg' = [user_id |-> user_id, score |-> score]
        /\ ret' = TRUE
        /\ sim_run' = Append(sim_run, [user_id |-> user_id, score |-> score])
        /\ GraphFrame
        /\ UNCHANGED <<default_weights, user_settings, quest_progress, budget_log,
                       today, board_post, board_claim>>

CallJudgmentScore ==
    \E user_id \in Users :
        /\ op = "idle"
        /\ op' = "_calculate_judgment_score"
        /\ arg' = user_id
        /\ ret' = _calculate_judgment_score(user_id)
        /\ Frame

JudgmentInit ==
    /\ GraphBuilt
    /\ Idle
    /\ StoreSeeded

JudgmentNext ==
    \/ CallSaveRun
    \/ CallJudgmentScore
    \/ Return

JudgmentSpec == JudgmentInit /\ [][JudgmentNext]_vars

\* The positions in sim_run of the user's runs, and of those among them that
\* fewer than 5 of the user's runs were saved after.
RunsOf(user_id) == {k \in DOMAIN sim_run : sim_run[k].user_id = user_id}

MostRecentRuns(user_id) ==
    {k \in RunsOf(user_id) : Cardinality({j \in RunsOf(user_id) : j > k}) < 5}

RECURSIVE ScoreTotal(_)
ScoreTotal(positions) ==
    IF positions = {} THEN 0
    ELSE LET k == CHOOSE j \in positions : TRUE
         IN  sim_run[k].score + ScoreTotal(positions \ {k})

\* C20: after any sequence of save_run calls the judgment sub-score of a user
\* is the mean score of the user's 5 most recently saved runs (of all of
\* them when there are fewer), and 50 when the user has no run.
C20_JudgmentIsRecentMean ==
    op = "_calculate_judgment_score" =>
        /\ ret.den > 0
        /\ RunsOf(arg) = {} => ret.num = 50 * ret.den
        /\ RunsOf(arg) # {} =>
              ret.num * Cardinality(MostRecentRuns(arg))
                  = ret.den * ScoreTotal(MostRecentRuns(arg))

\* The score of a user with more than 5 runs whose oldest run would have
\* changed the mean had it counted.
C20_Witness ==
    /\ op = "_calculate_judgment_score"
    /\ Cardinality(RunsOf(arg)) > 5
    /\ ret.num * Cardinality(RunsOf(arg)) # ret.den * ScoreTotal(RunsOf(arg))
    /\ \E k \in RunsOf(arg) \ MostRecentRuns(arg) : sim_run[k].score = 100
    /\ \E other \in Users \ {arg} : RunsOf(other) = {}

(***************************************************************************)
(* The index and the settings it reads.  The callers read, update and      *)
(* import settings, set the engine's weights and ask for the index, on a   *)
(* store where nobody has done anything or where demo_user has been busy.  *)
(***************************************************************************)

\* A store on which demo_user completed ten quests, saved all income, logged
\* today, created ten posts, claimed five and scored 100 in five runs.
BusyStore ==
    /\ quest_progress = QuestRows("demo_user", 10, 0)
    /\ budget_log = LedgerRows("demo_user", <<0, 1, 0>>, 1, 0, FALSE)
    /\ board_post = BoardPostTable(<<10, 5, 5, 0>>)
    /\ board_claim = BoardClaimTable(<<10, 5, 5, 0>>)
    /\ sim_run = [k \in 1..5 |-> [user_id |-> "demo_user", score |-> 100]]

QuietStore ==
    /\ quest_progress = << >>
    /\ budget_log = << >>
    /\ board_post = seed_board_posts
    /\ board_claim = << >>
    /\ sim_run = << >>

AutonomyInit ==
    /\ GraphBuilt
    /\ Idle
    /\ default_weights = DefaultWeights
    /\ user_settings = [user_id \in Users |-> None]
    /\ today = StartDay
    /\ (QuietStore \/ BusyStore)

\* update_user_settings' valid_fields.
valid_fields == DOMAIN DefaultSettings

\* The keyword arguments callers pass to update_user_settings: none, an
\* unknown field, one weight, and the three ratios (BudgetManager.update_ratios).
KwargsInputs ==
    { EmptyDict,
      [nickname |-> 1],
      [skills_weight |-> 100],
      [judgment_weight |-> 0],
      [spend_ratio |-> 50, save_ratio |-> 40, share_ratio |-> 10] }

\* The exports callers hand to import_data: without a version, without
\* settings, and with settings that name some of the fields.
ImportInputs ==
    { [settings |-> [judgment_weight |-> 300]],
      [version |-> "1.0"],
      [version |-> "1.0", settings |-> [judgment_weight |-> 300]],
      [version |-> "1.0", settings |-> [judgment_weight |-> -50]],
      [version |-> "1.0",
       settings |-> [skills_weight |-> 25, budgeting_weight |-> 25,
                     community_weight |-> 25, judgment_weight |-> 25]] }

\* The weights callers pass to update_weights here.
SampleWeightInputs == { <<25, 25, 25, 25>>, <<30, 30, 15, 26>>, <<30, 30, 30, 30>> }

OtherTablesFrame ==
    UNCHANGED <<default_weights, quest_progress, budget_log, today,
                board_post, board_claim, sim_run>>

\* db.get_user_settings.
CallGetUserSettings ==
    \E user_id \in Users :
        /\ op = "idle"
        /\ op' = "get_user_settings"
        /\ arg' = user_id
        /\ ret' = get_user_settings(user_id)
        /\ user_settings' = settings_after_get(user_id)
        /\ GraphFrame
        /\ OtherTablesFrame

\* db.update_user_settings: an UPDATE of the named valid fields; False when
\* no valid field is named or no row is updated.
CallUpdateUserSettings ==
    \E user_id \in Users :
      \E kwargs \in KwargsInputs :
        /\ op = "idle"
        /\ op' = "update_user_settings"
        /\ arg' = [user_id |-> user_id, kwargs |-> kwargs]
        /\ IF DOMAIN kwargs \cap valid_fields = {} \/ user_settings[user_id] = None
           THEN /\ ret' = FALSE
                /\ UNCHANGED user_settings
           ELSE /\ ret' = TRUE
                /\ user_settings' =
                      [user_settings EXCEPT ![user_id] =
                          [field \in valid_fields |->
                              IF field \in DOMAIN kwargs THEN kwargs[field]
                              ELSE user_settings[user_id][field]]]
        /\ GraphFrame
        /\ OtherTablesFrame

\* utils.import_data for an export that carries no budget, quest, board or
\* simulation section: the settings row of the user is replaced by the
\* export's values, the fields it does not name taking the defaults.
CallImportData ==
    \E user_id \in Users :
      \E data \in ImportInputs :
        /\ op = "idle"
        /\ op' = "import_data"
        /\ arg' = [user_id |-> user_id, data |-> data]
        /\ IF "version" \notin DOMAIN data
           THEN /\ ret' = FALSE
                /\ UNCHANGED user_settings
           ELSE /\ ret' = TRUE
                /\ IF "settings" \in DOMAIN data
                   THEN user_settings' =
                          [user_settings EXCEPT ![user_id] =
                              [field \in valid_fields |->
                                  IF field \in DOMAIN data.settings
                                  THEN data.settings[field]
                                  ELSE DefaultSettings[field]]]
                   ELSE UNCHANGED user_settings
        /\ GraphFrame
        /\ OtherTablesFrame

CallUpdateWeightsSample == \E w \in SampleWeightInputs : UpdateWeights(w)

\* AutonomyIndex.compute_autonomy_index; its get_user_settings call leaves
\* a default row for a user that had none.
CallComputeAutonomyIndex ==
    \E user_id \in Users :
      \E index \in compute_autonomy_index(user_id) :
        /\ op = "idle"
        /\ op' = "compute_autonomy_index"
        /\ arg' = user_id
        /\ ret' = index
        /\ user_settings' = settings_after_get(user_id)
        /\ GraphFrame
        /\ OtherTablesFrame

AutonomyNext ==
    \/ CallGetUserSettings
    \/ CallUpdateUserSettings
    \/ CallImportData
    \/ CallUpdateWeightsSample
    \/ CallComputeAutonomyIndex
    \/ Return

AutonomySpec == AutonomyInit /\ [][AutonomyNext]_vars

\* C15 (as claimed): in every state reachable through update_weights,
\* get_user_settings, update_user_settings and import_data, the four weights
\* compute_autonomy_index reads for a user are non-negative and sum to 1.0
\* within 0.01, and the index it returns lies in 0..100.
C15_WeightsValidIndexInRange ==
    /\ \A user_id \in Users :
          /\ get_user_settings(user_id).skills_weight >= 0
          /\ get_user_settings(user_id).budgeting_weight >= 0
          /\ get_user_settings(user_id).community_weight >= 0
          /\ get_user_settings(user_id).judgment_weight >= 0
          /\ Abs(get_user_settings(user_id).skills_weight
                 + get_user_settings(user_id).budgeting_weight
                 + get_user_settings(user_id).community_weight
                 + get_user_settings(user_id).judgment_weight - 100) <= 1
    /\ op = "compute_autonomy_index" => (0 <= ret /\ ret <= 1000)

\* The user has no completed quest, no transaction, no post, no claim and
\* no run.
NoActivity(user_id) ==
    /\ \A k \in DOMAIN quest_progress :
          quest_progress[k].user_id = user_id => quest_progress[k].completed_at = None
    /\ \A k \in DOMAIN budget_log : budget_log[k].user_id # user_id
    /\ \A k \in DOMAIN board_post : board_post[k].user_id # user_id
    /\ \A k \in DOMAIN board_claim : board_claim[k].user_id # user_id
    /\ \A k \in DOMAIN sim_run : sim_run[k].user_id # user_id

MaxQuestDays == 1

\* The quest ids the callers pass: the first two seeded quests and the id of
\* the first node of the skill graph, which is no row of the quest table.
QuestInputs == {seed_quests[1], seed_quests[2], _load_indiegraph.nodes[1].id}

\* QuestManager.get_quest_by_id: the quest's row, None for an absent id.
get_quest_by_id(quest_id) ==
    IF \E k \in DOMAIN seed_quests : seed_quests[k] = quest_id
    THEN [id |-> quest_id]
    ELSE None

\* "SELECT ... FROM quest_progress WHERE user_id = ? AND quest_id = ?".
progress_rows(user_id, quest_id) ==
    SelectSeq(quest_progress,
              LAMBDA row : row.user_id = user_id /\ row.quest_id = quest_id)

\* start_quest returns True: the quest exists and the user has no row for it.
start_quest_accepts(user_id, quest_id) ==
    /\ get_quest_by_id(quest_id) # None
    /\ progress_rows(user_id, quest_id) = << >>

\* A faulty check that completes a completed quest again.
complete_quest_accepts_completed(user_id, quest_id) ==
    progress_rows(user_id, quest_id) # << >>

\* complete_quest returns True: the user has a row for the quest, and the
\* first such row has no completion time.
complete_quest_accepts(user_id, quest_id) ==
    /\ progress_rows(user_id, quest_id) # << >>
    /\ progress_rows(user_id, quest_id)[1].completed_at = None

\* "UPDATE quest_progress SET completed_at = ? WHERE user_id = ? AND
\* quest_id = ?", with the time of the call.
mark_completed(user_id, quest_id) ==
    [k \in DOMAIN quest_progress |->
        IF quest_progress[k].user_id = user_id /\ quest_progress[k].quest_id = quest_id
        THEN [quest_progress[k] EXCEPT !.completed_at = [day |-> today]]
        ELSE quest_progress[k]]

\* The query of get_next_skills: the ids of the quests of the quest table
\* that the user has completed.
completed_skills_of(user_id) ==
    {quest_progress[k].quest_id :
        k \in {i \in DOMAIN quest_progress :
                 /\ quest_progress[i].user_id = user_id
                 /\ quest_progress[i].completed_at # None
                 /\ get_quest_by_id(quest_progress[i].quest_id) # None}}

QuestInit ==
    /\ GraphBuilt
    /\ Idle
    /\ StoreSeeded

QuestOtherTablesFrame ==
    UNCHANGED <<default_weights, user_settings, budget_log, today,
                board_post, board_claim, sim_run>>

\* QuestManager.start_quest.
CallStartQuest ==
    \E user_id \in Users, quest_id \in QuestInputs :
        /\ op = "idle"
        /\ op' = "start_quest"
        /\ arg' = [user_id |-> user_id, quest_id |-> quest_id]
        /\ ret' = start_quest_accepts(user_id, quest_id)
        /\ quest_progress' =
              IF start_quest_accepts(user_id, quest_id)
              THEN Append(quest_progress,
                          [user_id |-> user_id, quest_id |-> quest_id,
                           started_at |-> today, completed_at |-> None])
              ELSE quest_progress
        /\ GraphFrame
        /\ QuestOtherTablesFrame

\* QuestManager.complete_quest.
CallCompleteQuest ==
    \E user_id \in Users, quest_id \in QuestInputs :
        /\ op = "idle"
        /\ op' = "complete_quest"
        /\ arg' = [user_id |-> user_id, quest_id |-> quest_id]
        /\ ret' = complete_quest_accepts(user_id, quest_id)
        /\ quest_progress' =
              IF complete_quest_accepts(user_id, quest_id)
              THEN mark_completed(user_id, quest_id)
              ELSE quest_progress
        /\ GraphFrame
        /\ QuestOtherTablesFrame

\* IndieGraph.get_next_skills for a user, with the default limit.
CallGetNextSkillsOfUser ==
    \E user_id \in Users :
        /\ op = "idle"
        /\ op' = "get_next_skills"
        /\ arg' = [user_id |-> user_id, limit |-> 3]
        /\ ret' = get_next_skills(completed_skills_of(user_id), 3)
        /\ Frame

\* Midnight passes between two calls.
NextDay ==
    /\ op = "idle"
    /\ today < StartDay + MaxQuestDays
    /\ today' = today + 1
    /\ UNCHANGED <<op, arg, ret>>
    /\ GraphFrame
    /\ UNCHANGED <<default_weights, user_settings, quest_progress, budget_log,
                   board_post, board_claim, sim_run>>

QuestNext ==
    \/ CallStartQuest
    \/ CallCompleteQuest
    \/ CallGetNextSkillsOfUser
    \/ NextDay
    \/ Return

QuestSpec == QuestInit /\ [][QuestNext]_vars

\* The ids of the nodes of the skill graph.
GraphIds == {nodes[i].id : i \in DOMAIN nodes}

\* C21 (as claimed): every quest a user has completed is a node of the
\* skill graph, so that the completed set the recommendation engine reads
\* is a set of skills.
C21_CompletedQuestsAreSkills ==
    \A k \in DOMAIN quest_progress :
        quest_progress[k].completed_at # None =>
            quest_progress[k].quest_id \in GraphIds

\* The rows of the progress table for one user and one quest, by position.
PairRows(table, user_id, quest_id) ==
    {k \in DOMAIN table : table[k].user_id = user_id /\ table[k].quest_id = quest_id}

\* The ids of the rows of the quest table.
QuestTableIds == {seed_quests[k] : k \in DOMAIN seed_quests}

\* C28: over start_quest and complete_quest calls run one at a time, a
\* (user, quest) pair has at most one progress row; a row is created without
\* a completion time, so a pair is completed only after it was started, on a
\* day not before its start; a completed row never changes again; complete_quest
\* returns False exactly on a pair that is not started or already completed,
\* start_quest returns False exactly on a pair already started or a quest
\* that does not exist, and a call that returns False leaves the table as it was.
C28_QuestLifecycle ==
    [][/\ \A i, j \in DOMAIN quest_progress' :
             (/\ quest_progress'[i].user_id = quest_progress'[j].user_id
              /\ quest_progress'[i].quest_id = quest_progress'[j].quest_id) => i = j
       /\ Len(quest_progress') >= Len(quest_progress)
       /\ \A k \in DOMAIN quest_progress' :
             IF k \in DOMAIN quest_progress
             THEN /\ quest_progress'[k].user_id = quest_progress[k].user_id
                  /\ quest_progress'[k].quest_id = quest_progress[k].quest_id
                  /\ quest_progress'[k].started_at = quest_progress[k].started_at
                  /\ quest_progress[k].completed_at # None =>
                        quest_progress'[k].completed_at = quest_progress[k].completed_at
                  /\ quest_progress'[k].completed_at # None =>
                        quest_progress'[k].completed_at.day >= quest_progress'[k].started_at
             ELSE quest_progress'[k].completed_at = None
       /\ (op = "idle" /\ op' = "complete_quest") =>
             (ret' = FALSE <=>
                 \/ PairRows(quest_progress, arg'.user_id, arg'.quest_id) = {}
                 \/ \E k \in PairRows(quest_progress, arg'.user_id, arg'.quest_id) :
                       quest_progress[k].completed_at # None)
       /\ (op = "idle" /\ op' = "start_quest") =>
             (ret' = FALSE <=>
                 \/ PairRows(quest_progress, arg'.user_id, arg'.quest_id) # {}
                 \/ arg'.quest_id \notin QuestTableIds)
       /\ (op' \in {"start_quest", "complete_quest"} /\ ret' = FALSE) =>
             quest_progress' = quest_progress]_vars

\* A user completes again, a day later, a quest they started and completed
\* the day before: the call returns False and the completion time stands.
C28_Witness ==
    /\ op = "complete_quest"
    /\ ret = FALSE
    /\ \E k \in PairRows(quest_progress, arg.user_id, arg.quest_id) :
          /\ quest_progress[k].completed_at # None
          /\ quest_progress[k].completed_at.day < today
    /\ \E k \in DOMAIN quest_progress :
          quest_progress[k].user_id # arg.user_id /\ quest_progress[k].completed_at = None

(***************************************************************************)
(* The dashboard (src/app.py, show_dashboard): besides the settings calls  *)
(* above, the callers ask for the four sub-scores and the recommendations. *)
(***************************************************************************)

\* AutonomyIndex.get_individual_scores.
CallGetIndividualScores ==
    \E user_id \in Users :
        /\ op = "idle"
        /\ op' = "get_individual_scores"
        /\ arg' = user_id
        /\ ret' = [skills |-> _calculate_skills_score(user_id),
                   budgeting |-> _calculate_budgeting_score(user_id),
                   community |-> _calculate_community_score(user_id),
                   judgment |-> _calculate_judgment_score(user_id)]
        /\ Frame

DashboardNext ==
    \/ AutonomyNext
    \/ CallGetIndividualScores
    \/ CallGetNextSkillsOfUser

DashboardSpec == AutonomyInit /\ [][DashboardNext]_vars

\* C22 (as claimed): a call of compute_autonomy_index, get_individual_scores
\* or get_next_skills leaves the settings, quest progress, budget log, board
\* and simulation run tables as they were.
C22_QueriesAreReadOnly ==
    [][(/\ op = "idle"
        /\ op' \in {"compute_autonomy_index", "get_individual_scores", "get_next_skills"})
          => UNCHANGED <<user_settings, quest_progress, budget_log,
                         board_post, board_claim, sim_run>>]_vars

MaxPathCompleted == 2
\* The loop is followed while its queue holds at most this many entries,
\* each with a path of at most MaxPathLen nodes.
MaxQueueLen == 8
MaxPathLen == 8

\* A catalog with the cycle s1 <- s3 <- s2 <- s1, and s4 on top of it.
CyclicCatalog ==
    [ nodes |-> <<
        [id |-> "s1", prerequisites |-> <<"s3">>],
        [id |-> "s2", prerequisites |-> <<"s1">>],
        [id |-> "s3", prerequisites |-> <<"s2">>],
        [id |-> "s4", prerequisites |-> <<"s3", "s1">>] >>,
      edges |-> <<
        [from |-> "s3", to |-> "s1"],
        [from |-> "s1", to |-> "s2"],
        [from |-> "s2", to |-> "s3"],
        [from |-> "s3", to |-> "s4"],
        [from |-> "s1", to |-> "s4"] >> ]

\* A catalog with a prerequisite that is no node, a repeated prerequisite
\* and a skill that is its own prerequisite.
DanglingCatalog ==
    [ nodes |-> <<
        [id |-> "t1", prerequisites |-> <<"ghost">>],
        [id |-> "t2", prerequisites |-> <<"t1", "t1">>],
        [id |-> "t3", prerequisites |-> <<"t3">>],
        [id |-> "t4", prerequisites |-> <<"t3", "t2">>] >>,
      edges |-> <<
        [from |-> "ghost", to |-> "t1"],
        [from |-> "t1", to |-> "t2"],
        [from |-> "t1", to |-> "t2"],
        [from |-> "t3", to |-> "t3"],
        [from |-> "t3", to |-> "t4"],
        [from |-> "t2", to |-> "t4"] >> ]

Catalogs == {_load_indiegraph, CyclicCatalog, DanglingCatalog}

\* One pass of the while loop of get_skill_path over a non-empty queue.
\* A faulty pass that keeps no visited set.
PathIterationRevisits(queue, visited, completed_skills) ==
    LET current_skill == Head(queue).skill
        path == Head(queue).path
    IN  IF is_available(current_skill, completed_skills)
        THEN [returns |-> TRUE,
              value |-> Append(path, get_node_by_id(current_skill))]
        ELSE [returns |-> FALSE,
              queue |-> Tail(queue) \o PathSuccessors(current_skill, path,
                                                      completed_skills, {}),
              visited |-> visited]

PathIteration(queue, visited, completed_skills) ==
    LET current_skill == Head(queue).skill
        path == Head(queue).path
    IN  IF current_skill \in visited
        THEN [returns |-> FALSE, queue |-> Tail(queue), visited |-> visited]
        ELSE IF is_available(current_skill, completed_skills)
        THEN [returns |-> TRUE,
              value |-> Append(path, get_node_by_id(current_skill))]
        ELSE [returns |-> FALSE,
              queue |-> Tail(queue) \o PathSuccessors(current_skill, path,
                                          completed_skills,
                                          visited \cup {current_skill}),
              visited |-> visited \cup {current_skill}]

PathInit ==
    /\ \E catalog \in Catalogs :
          /\ nodes = catalog.nodes
          /\ edges = catalog.edges
          /\ adjacency_list = _build_adjacency_list(catalog.nodes, catalog.edges)
          /\ reverse_adjacency = _build_reverse_adjacency(catalog.nodes, catalog.edges)
          /\ completed \in
                {c \in SUBSET ({catalog.nodes[i].id : i \in DOMAIN catalog.nodes}
                               \cup {UnknownSkillId}) :
                    Cardinality(c) <= MaxPathCompleted}
    /\ bfs_queue = << >>
    /\ bfs_visited = {}
    /\ op = "idle"
    /\ arg = ""
    /\ ret = << >>
    /\ StoreSeeded

PathGraphFrame ==
    UNCHANGED <<nodes, edges, adjacency_list, reverse_adjacency, completed>>

\* get_skill_path up to the head of its while loop.
CallGetSkillPathBegin ==
    \E target_skill_id \in GraphIds \cup {UnknownSkillId} :
        /\ op = "idle"
        /\ arg' = target_skill_id
        /\ IF target_skill_id \in completed
           THEN /\ op' = "get_skill_path"
                /\ ret' = << >>
                /\ UNCHANGED <<bfs_queue, bfs_visited>>
           ELSE /\ op' = "get_skill_path.while"
                /\ ret' = << >>
                /\ bfs_queue' = <<[skill |-> target_skill_id, path |-> << >>]>>
                /\ bfs_visited' = {}
        /\ PathGraphFrame
        /\ StoreFrame

\* One test of "while queue" and, for a non-empty queue, one pass of the
\* body; the locals are dropped when the method returns.
PathWhile ==
    /\ op = "get_skill_path.while"
    /\ Len(bfs_queue) <= MaxQueueLen
    /\ \A k \in DOMAIN bfs_queue : Len(bfs_queue[k].path) <= MaxPathLen
    /\ IF bfs_queue = << >>
       THEN /\ op' = "get_skill_path"
            /\ ret' = << >>
            /\ bfs_queue' = << >>
            /\ bfs_visited' = {}
       ELSE LET pass == PathIteration(bfs_queue, bfs_visited, completed)
            IN  IF pass.returns
                THEN /\ op' = "get_skill_path"
                     /\ ret' = pass.value
                     /\ bfs_queue' = << >>
                     /\ bfs_visited' = {}
                ELSE /\ bfs_queue' = pass.queue
                     /\ bfs_visited' = pass.visited
                     /\ UNCHANGED <<op, ret>>
    /\ UNCHANGED arg
    /\ PathGraphFrame
    /\ StoreFrame

\* The caller drops the path it was given.
PathReturn ==
    /\ op = "get_skill_path"
    /\ op' = "idle"
    /\ arg' = ""
    /\ ret' = << >>
    /\ Frame

PathNext ==
    \/ CallGetSkillPathBegin
    \/ PathWhile
    \/ PathReturn

PathSpec == PathInit /\ [][PathNext]_vars

\* The loop is not suspended for ever between two passes.
PathFairSpec == PathSpec /\ WF_vars(PathWhile)

\* C23: on every catalog, with a cycle, a repeated prerequisite or a
\* prerequisite that is no node included, and for every target and completed
\* set, a get_skill_path call that has entered its loop returns.
C23_SkillPathTerminates ==
    [](op = "get_skill_path.while" => <>(op = "get_skill_path"))

\* On the catalog with a cycle the search from s4 with nothing completed has
\* run out of skills to expand and returned the empty path.
C23_Witness ==
    /\ nodes = CyclicCatalog.nodes
    /\ op = "get_skill_path"
    /\ arg = "s4"
    /\ completed = {}
    /\ ret = << >>

\* The path the loop returns is the one the method's model as one operator
\* gives.
PathAgreesWithOperator ==
    op = "get_skill_path" => ret = get_skill_path(arg, completed)

(***************************************************************************)
(* The three-jar ledger (src/src/budget.py, class BudgetManager): users    *)
(* add income and expenses one call at a time while the days pass, and ask *)
(* for their logging streak.                                               *)
(***************************************************************************)

\* The days pass for up to this many days after StartDay.
MaxLedgerDays == 2
\* The calls are followed while the ledger holds at most this many rows.
MaxLedgerRows == 6

\* The amounts callers pass to add_income, for which the three products
\* amount * (ratio / 100) are whole, and to add_expense.
IncomeAmounts == {0, 10}
ExpenseAmounts == {1, 7}

\* The jars callers name: the three jars and one that does not exist.
JarInputs == {"spend", "save", "share", "fun"}

\* The three rows add_income inserts, on the day of the call.
income_rows(user_id, amount) ==
    LET settings == get_user_settings(user_id)
    IN  << [user_id |-> user_id, amount |-> (amount * settings.spend_ratio) \div 100,
            jar |-> "spend", day |-> today],
           [user_id |-> user_id, amount |-> (amount * settings.save_ratio) \div 100,
            jar |-> "save", day |-> today],
           [user_id |-> user_id, amount |-> (amount * settings.share_ratio) \div 100,
            jar |-> "share", day |-> today] >>

\* A faulty check that lets a jar be overdrawn.
add_expense_accepts_overdraft(user_id, amount, jar) ==
    jar \in {"spend", "save", "share"}

\* add_expense returns True: the jar exists and holds the amount.
add_expense_accepts(user_id, amount, jar) ==
    /\ jar \in {"spend", "save", "share"}
    /\ ~(get_jar_balance(user_id, jar) < amount)

\* The store when the first call is made: seeded, with demo_user_1 having
\* set their ratios to 50, 40 and 10 (BudgetManager.update_ratios) or not.
LedgerInit ==
    /\ GraphBuilt
    /\ Idle
    /\ default_weights = DefaultWeights
    /\ user_settings \in
          { [user_id \in Users |-> None],
            [user_id \in Users |->
                IF user_id = "demo_user_1"
                THEN [DefaultSettings EXCEPT !.spend_ratio = 50, !.save_ratio = 40]
                ELSE None] }
    /\ quest_progress = << >>
    /\ budget_log = << >>
    /\ today = StartDay
    /\ board_post = seed_board_posts
    /\ board_claim = << >>
    /\ sim_run = << >>

\* BudgetManager.add_income; its get_user_settings call leaves a default
\* row for a user that had none.
CallAddIncome ==
    \E user_id \in Users, amount \in IncomeAmounts :
        /\ op = "idle"
        /\ Len(budget_log) + 3 <= MaxLedgerRows
        /\ op' = "add_income"
        /\ arg' = [user_id |-> user_id, amount |-> amount]
        /\ ret' = TRUE
        /\ user_settings' = settings_after_get(user_id)
        /\ budget_log' = budget_log \o income_rows(user_id, amount)
        /\ GraphFrame
        /\ UNCHANGED <<default_weights, quest_progress, today,
                       board_post, board_claim, sim_run>>

\* BudgetManager.add_expense.
CallAddExpense ==
    \E user_id \in Users, amount \in ExpenseAmounts, jar \in JarInputs :
        /\ op = "idle"
        /\ add_expense_accepts(user_id, amount, jar) =>
              Len(budget_log) + 1 <= MaxLedgerRows
        /\ op' = "add_expense"
        /\ arg' = [user_id |-> user_id, amount |-> amount, jar |-> jar]
        /\ ret' = add_expense_accepts(user_id, amount, jar)
        /\ budget_log' =
              IF add_expense_accepts(user_id, amount, jar)
              THEN Append(budget_log,
                          [user_id |-> user_id, amount |-> 0 - amount,
                           jar |-> jar, day |-> today])
              ELSE budget_log
        /\ GraphFrame
        /\ UNCHANGED <<default_weights, user_settings, quest_progress, today,
                       board_post, board_claim, sim_run>>

\* BudgetManager.get_current_streak.
CallGetCurrentStreak ==
    \E user_id \in Users :
        /\ op = "idle"
        /\ op' = "get_current_streak"
        /\ arg' = user_id
        /\ ret' = get_current_streak(user_id)
        /\ Frame

\* Midnight passes between two calls.
LedgerNextDay ==
    /\ op = "idle"
    /\ today < StartDay + MaxLedgerDays
    /\ today' = today + 1
    /\ UNCHANGED <<op, arg, ret>>
    /\ GraphFrame
    /\ UNCHANGED <<default_weights, user_settings, quest_progress, budget_log,
                   board_post, board_claim, sim_run>>

LedgerNext ==
    \/ CallAddIncome
    \/ CallAddExpense
    \/ CallGetCurrentStreak
    \/ LedgerNextDay
    \/ Return

LedgerSpec == LedgerInit /\ [][LedgerNext]_vars

\* The days on which the user logged a transaction.
LogDays(user_id) ==
    {budget_log[k].day : k \in {j \in DOMAIN budget_log : budget_log[j].user_id = user_id}}

\* The length of the run of consecutive logging days that ends on the day d.
RunEndingOn(user_id, d) ==
    CHOOSE n \in 0..(d + 1) :
        /\ \A i \in 0..(n - 1) : (d - i) \in LogDays(user_id)
        /\ (d - n) \notin LogDays(user_id)

\* C27 (as claimed): get_current_streak returns the length of the run of
\* consecutive logging days that ends on the user's most recent log date
\* when that date is today or yesterday, and 0 otherwise; a user who logged
\* yesterday and the day before, and not today, has streak 2.
C27_StreakIsRunLength ==
    op = "get_current_streak" =>
        ret = IF today \in LogDays(arg) THEN RunEndingOn(arg, today)
              ELSE IF (today - 1) \in LogDays(arg) THEN RunEndingOn(arg, today - 1)
              ELSE 0

\* C30: with amounts and ratios that are not negative, the three jars of
\* every user hold a balance of zero or more after every add_income and
\* add_expense call, and an add_expense that names a jar that does not exist
\* or an amount above the jar's balance returns False and adds no row.
C30_JarsNeverOverdrawn ==
    [][/\ \A user_id \in Users, jar \in {"spend", "save", "share"} :
             (LedgerSum(user_id, jar, Len(budget_log)) >= 0)'
       /\ (/\ op = "idle"
           /\ op' = "add_expense"
           /\ \/ arg'.jar \notin {"spend", "save", "share"}
              \/ arg'.amount > LedgerSum(arg'.user_id, arg'.jar, Len(budget_log)))
             => (ret' = FALSE /\ budget_log' = budget_log)]_vars

\* An expense above the jar's balance was turned down after an earlier
\* expense from the same jar had been accepted.
C30_Witness ==
    /\ op = "add_expense"
    /\ ret = FALSE
    /\ arg.jar \in {"spend", "save", "share"}
    /\ LedgerSum(arg.user_id, arg.jar, Len(budget_log)) > 0
    /\ \E k \in DOMAIN budget_log :
          /\ budget_log[k].user_id = arg.user_id
          /\ budget_log[k].jar = arg.jar
          /\ budget_log[k].amount < 0

(***************************************************************************)
(* The Youth Board: create_post and claim_post, one call at a time.        *)
(***************************************************************************)

\* The calls create up to MaxBoardPosts posts on top of the seeded ones.
MaxBoardPosts == 1

\* The kinds a caller passes: the three valid ones and another.
KindInputs == {"study", "carpool", "swap", "chat"}

\* A user_id that is falsy: None, the default of both methods, or ''.
NoUser == ""

\* The user_id a caller passes.
BoardUserInputs == Users \cup {NoUser}

\* user_id or 'demo_user'.
user_or_demo(user_id) == IF user_id = NoUser THEN "demo_user" ELSE user_id

\* An id no post has.
MissingPostId == "post_missing"

\* The post ids a caller passes: every id of the table and one that is missing.
PostIdInputs ==
    {board_post[k].id : k \in DOMAIN board_post} \cup {MissingPostId}

\* generate_share_code: kind.upper()[:4]; the four random characters that
\* follow the dash are read by no call here.
generate_share_code(kind) ==
    CASE kind = "study" -> "STUD-"
      [] kind = "carpool" -> "CARP-"
      [] kind = "swap" -> "SWAP-"
      [] OTHER -> "CHAT-"

\* self.mock_contacts, by name.
mock_contacts ==
    {"Alex Chen", "Jordan Smith", "Taylor Johnson", "Casey Williams", "Riley Brown"}

\* get_post_by_id: the rows of the post, none when it is missing.
get_post_by_id(post_id) ==
    SelectSeq(board_post, LAMBDA row : row.id = post_id)

\* The check of claim_post with the status test left out.
claim_post_accepts_any_status(post_id) ==
    get_post_by_id(post_id) # << >>

\* claim_post goes on when the post exists and its status is 'available'.
claim_post_accepts(post_id) ==
    /\ get_post_by_id(post_id) # << >>
    /\ get_post_by_id(post_id)[1].status = "available"

\* UPDATE board_post SET status = 'claimed' WHERE id = ?
mark_claimed(post_id) ==
    [k \in DOMAIN board_post |->
        IF board_post[k].id = post_id
        THEN [board_post[k] EXCEPT !.status = "claimed"]
        ELSE board_post[k]]

BoardInit ==
    /\ GraphBuilt
    /\ Idle
    /\ StoreSeeded

BoardOtherTablesFrame ==
    /\ GraphFrame
    /\ UNCHANGED <<default_weights, user_settings, quest_progress, budget_log,
                   today, sim_run>>

\* BoardManager.create_post: ValueError for another kind; otherwise one row
\* with a fresh id and the status the table gives a new row.
CallCreatePost ==
    \E kind \in KindInputs, user_id \in BoardUserInputs :
        /\ op = "idle"
        /\ kind \in {"study", "carpool", "swap"} =>
              Len(board_post) < Len(seed_board_posts) + MaxBoardPosts
        /\ op' = "create_post"
        /\ arg' = [kind |-> kind, user_id |-> user_id]
        /\ IF kind \notin {"study", "carpool", "swap"}
           THEN /\ ret' = "ValueError"
                /\ board_post' = board_post
           ELSE /\ ret' = generate_share_code(kind)
                /\ board_post' =
                      Append(board_post,
                             [id |-> generate_id[Len(board_post)
                                                 - Len(seed_board_posts) + 1],
                              user_id |-> user_or_demo(user_id),
                              status |-> "available"])
        /\ board_claim' = board_claim
        /\ BoardOtherTablesFrame

\* BoardManager.claim_post: ValueError unless the post is there and
\* available; otherwise a claim row, the status update and a contact.
CallClaimPost ==
    \E post_id \in PostIdInputs, user_id \in BoardUserInputs :
        /\ op = "idle"
        /\ op' = "claim_post"
        /\ arg' = [post_id |-> post_id, user_id |-> user_id]
        /\ IF ~claim_post_accepts(post_id)
           THEN /\ ret' = "ValueError"
                /\ board_claim' = board_claim
                /\ board_post' = board_post
           ELSE /\ ret' \in mock_contacts
                /\ board_claim' =
                      Append(board_claim,
                             [post_id |-> post_id,
                              user_id |-> user_or_demo(user_id)])
                /\ board_post' = mark_claimed(post_id)
        /\ BoardOtherTablesFrame

BoardNext ==
    \/ CallCreatePost
    \/ CallClaimPost
    \/ Return

BoardSpec == BoardInit /\ [][BoardNext]_vars

\* The claim records of a post.
ClaimsOf(post_id) ==
    {k \in DOMAIN board_claim : board_claim[k].post_id = post_id}

\* The status of a post that is in the table.
StatusOf(post_id) == get_post_by_id(post_id)[1].status

\* Every row of a post table with this id has this status, and there is one.
HasStatus(table, post_id, status) ==
    /\ \E k \in DOMAIN table : table[k].id = post_id
    /\ \A k \in DOMAIN table : table[k].id = post_id => table[k].status = status

\* The ids of the posts of the table.
PostIds == {board_post[k].id : k \in DOMAIN board_post}

\* C29: across create_post and claim_post calls run one at a time,
\* claim_post succeeds only on an existing post whose status is 'available'
\* and sets it to 'claimed'; every post has at most one claim record, a
\* claimed post never becomes available again, and claim_post on a missing
\* or claimed post raises an error and adds no claim record.
C29_ClaimOnlyAvailablePosts ==
    [][/\ (op = "idle" /\ op' = "claim_post") =>
            IF HasStatus(board_post, arg'.post_id, "available")
            THEN /\ ret' \in mock_contacts
                 /\ HasStatus(board_post', arg'.post_id, "claimed")
                 /\ Len(board_claim') = Len(board_claim) + 1
                 /\ board_claim'[Len(board_claim')].post_id = arg'.post_id
            ELSE /\ ret' = "ValueError"
                 /\ board_claim' = board_claim
                 /\ board_post' = board_post
       /\ (\A post_id \in PostIds : Cardinality(ClaimsOf(post_id)) <= 1)'
       /\ \A post_id \in PostIds :
             StatusOf(post_id) = "claimed" =>
                 (post_id \in PostIds /\ StatusOf(post_id) = "claimed")'
      ]_vars

\* A second claim on a post that a create_post call made and an earlier
\* claim_post call claimed has raised the error.
C29_Witness ==
    /\ op = "claim_post"
    /\ ret = "ValueError"
    /\ arg.post_id \in PostIds
    /\ arg.post_id \notin {seed_board_posts[k].id : k \in DOMAIN seed_board_posts}
    /\ StatusOf(arg.post_id) = "claimed"
    /\ Cardinality(ClaimsOf(arg.post_id)) = 1

====
